---------------------------- MODULE Spec2Model ----------------------------
(***************************************************************************)
(* A model of the scoring and forecasting core of Smart_restate_AI_Agent:  *)
(* the location-intelligence endpoints and their score store, the trend    *)
(* analyzer and market direction forecaster, and the two ROI calculators.  *)
(*                                                                         *)
(* Python floats are modelled exactly, as integers counted in a fixed      *)
(* fraction of the unit (named at each definition) or as pairs <<n, d>>    *)
(* standing for n/d with d > 0.  An optional value is None or Some(v).     *)
(* Each request handler is one action that writes the request it served    *)
(* and the response it handed back.                                        *)
(***************************************************************************)
EXTENDS Integers, Sequences, FiniteSets, TLC

VARIABLES
    location_scores,  \* rows of table location_scores, in insertion order
    roi_calculations, \* rows of table roi_calculations, in insertion order
    investment_recommendations, \* rows of table investment_recommendations
    request,          \* the request (or call) served last
    response          \* what was handed back to the caller for it

vars == <<location_scores, roi_calculations, investment_recommendations,
         request, response>>

\* Python's None, and a value that is present
None == <<>>

Some(v) == <<v>>

\* the value an optional holds
The(o) == o[1]

Abs(x) == IF x < 0 THEN -x ELSE x

Min2(a, b) == IF a <= b THEN a ELSE b

Max2(a, b) == IF a >= b THEN a ELSE b

\* Python round(x, 1) of the float x = n/d (d > 0), in tenths: the nearest
\* tenth, an exact tie going to the even tenth
round1(n, d) ==
    LET q == (10 * n) \div d
        r == (10 * n) % d
    IN  IF 2 * r > d \/ (2 * r = d /\ q % 2 = 1) THEN q + 1 ELSE q

----------------------------------------------------------------------------
(* Location intelligence: src/routes/location_intelligence.py and the      *)
(* location_scores table of src/services/database.py.  An unrounded score  *)
(* is an integer counted in 1/20000 of a score point; a stored score is an *)
(* integer counted in tenths.                                              *)

\* LocationScore.__init__ / to_dict, scores in tenths
LocationScore(location, total, schools, hospitals, transport, crime, green, development) ==
    [location          |-> location,
     total_score       |-> total,
     schools_score     |-> schools,
     hospitals_score   |-> hospitals,
     transport_score   |-> transport,
     crime_score       |-> crime,
     green_zones_score |-> green,
     development_score |-> development]

\* the weights of the heatmap's total (green 0.25, no development share)
weighted_total_heatmap(schools, hospitals, transport, crime, green, development) ==
    schools * 4 + hospitals * 3 + transport * 4 + crime * 4 + green * 5

\* the weighted average of six scores given in 1/20000, in 1/400000
\* (the weights 0.2, 0.15, 0.2, 0.2, 0.1, 0.15 in twentieths)
weighted_total(schools, hospitals, transport, crime, green, development) ==
    schools * 4 + hospitals * 3 + transport * 4 + crime * 4 + green * 2 + development * 3

\* a place as the collaborators return it, with and without the distance key
Place(d) == [name |-> "place", distance |-> d]

PlaceNoDistance == [name |-> "place"]

\* place.get('distance', 1000) summed over a list of places, in metres
RECURSIVE sum_distance(_)
sum_distance(places) ==
    IF places = <<>> THEN 0
    ELSE (IF "distance" \in DOMAIN Head(places) THEN Head(places).distance ELSE 1000)
         + sum_distance(Tail(places))

\* the distance factor without its floor at 0
distance_factor_unclamped(distances) ==
    2000 - (sum_distance(distances) \div Len(distances))

\* max(0, 1 - (avg_distance / 2000)), in 1/2000; the lists of the model have
\* a whole number of metres as their average, so \div is the exact quotient
distance_factor(distances) ==
    Max2(0, 2000 - (sum_distance(distances) \div Len(distances)))

category_base_score(n, category) ==
    CASE category = "school"    -> Min2(n * 15, 85)
      [] category = "hospital"  -> Min2(n * 20, 90)
      [] category = "transport" -> Min2(n * 10, 80)
      [] OTHER                  -> Min2(n * 10, 70)

\* base_score * (0.7 + 0.3 * distance_factor), capped at 100
calculate_category_score(places, category) ==
    IF places = <<>> THEN 0
    ELSE Min2(category_base_score(Len(places), category)
                  * (14000 + 3 * distance_factor(places)),
              100 * 20000)

calculate_green_score(parks, green_areas) ==
    LET distances == parks \o green_areas
    IN  Min2(IF distances # <<>>
             THEN Min2(Len(distances) * 12, 85) * (14000 + 3 * distance_factor(distances))
             ELSE 0,
             100 * 20000)

\* location_details is [walkability_score, amenities (a count), green_areas];
\* min(walkability, 90) * 0.7 + min(num_amenities / 20, 1) * 30, capped at 100
calculate_development_score(location_details) ==
    Min2(Min2(location_details.walkability_score, 90) * 14000
             + Min2(location_details.amenities, 20) * 30000,
         100 * 20000)

----------------------------------------------------------------------------
(* Inputs of the location model.                                           *)

\* the uniform draws of the sample generator take SampleSteps + 1 values
SampleSteps == 2

\* most places a collaborator returns for one category
MaxPlaces == 8

\* most locations in one compare request
MaxCompare == 2

\* location strings without a comma, as the items of a compare request are
Locations == {"Phoenix", "Austin", "Unknown City"}

\* random.uniform(lo, hi), in 1/20000, on a grid of step 11.45: its points
\* fall on tenths and half-way between tenths
uniform(lo, hi) ==
    {x \in {lo * 20000 + k * 229000 : k \in 0..SampleSteps} : x <= hi * 20000}

\* the six draws of generate_sample_location_score, in source order
SampleDraws ==
    uniform(60, 95) \X uniform(55, 90) \X uniform(50, 95) \X
    uniform(40, 95) \X uniform(45, 90) \X uniform(50, 95)

\* the draws met by a sequence of requests: every draw at its lowest
\* value, or every draw one grid step above it
RequestDraws ==
    {<<1200000, 1100000, 1000000, 800000, 900000, 1000000>>,
     <<1429000, 1329000, 1229000, 1029000, 1129000, 1229000>>}

\* lists of places as the places collaborator returns them: n places all at
\* distance d, or pairs of a place at distance d and one without a distance
Distances == {0, 700, 2000, 8000}

PlaceLists ==
    {<<>>} \cup
    {[i \in 1..n |-> Place(d)] : n \in 1..MaxPlaces, d \in Distances} \cup
    {[i \in 1..(2 * m) |-> IF i % 2 = 1 THEN Place(d) ELSE PlaceNoDistance] :
        m \in 1..(MaxPlaces \div 2), d \in Distances}

\* a coarse choice of place lists for the whole scoring block
FewPlaceLists ==
    {<<>>, <<Place(700)>>, [i \in 1..MaxPlaces |-> Place(0)],
     <<Place(2000), PlaceNoDistance>>}

\* walkability is an integer 0..100 (calculate_walkability_score, or the
\* sample generator's randint(30, 90))
Walkabilities == {0, 30, 90, 100}

AmenityCounts == {0, 7, 20, 45}

LocationDetails ==
    [walkability_score : Walkabilities, amenities : AmenityCounts,
     green_areas : {<<>>, <<Place(700), Place(2000), Place(0)>>}]

\* what the collaborators return around one point
Surroundings ==
    [schools : FewPlaceLists, hospitals : {<<>>, <<Place(700)>>},
     transport : {<<>>, [i \in 1..MaxPlaces |-> Place(0)]},
     parks : {<<>>, <<Place(2000), PlaceNoDistance>>},
     details : LocationDetails]

----------------------------------------------------------------------------
(* The store: src/services/database.py.                                    *)

generate_sample_location_score(location, draws) ==
    LocationScore(location,
                  round1(weighted_total(draws[1], draws[2], draws[3],
                                        draws[4], draws[5], draws[6]), 400000),
                  round1(draws[1], 20000), round1(draws[2], 20000),
                  round1(draws[3], 20000), round1(draws[4], 20000),
                  round1(draws[5], 20000), round1(draws[6], 20000))

\* SELECT ... WHERE location = %s ORDER BY created_at DESC LIMIT 1
latest_row(rows, location) ==
    LET hits == {i \in 1..Len(rows) : rows[i].location = location}
    IN  IF hits = {} THEN None
        ELSE Some(rows[CHOOSE i \in hits : \A j \in hits : j <= i])

\* the lookup answering None where it has no stored row to return
get_location_score_or_none(rows, location, db_up, draws) ==
    IF db_up THEN latest_row(rows, location) ELSE None

\* db_up: get_db_connection() returned a connection and the query ran.
\* Every path returns a LocationScore object, never None.
get_location_score(rows, location, db_up, draws) ==
    IF db_up /\ latest_row(rows, location) # None
    THEN latest_row(rows, location)
    ELSE Some(generate_sample_location_score(location, draws))

\* the table after save_location_score
save_location_score(rows, location, score_data, db_up) ==
    IF ~db_up THEN rows
    ELSE Append(rows, [score_data EXCEPT !.location = location])

----------------------------------------------------------------------------
(* The endpoints: src/routes/location_intelligence.py.                     *)

\* request.args.get('radius', 1000) as text, and int() of it (None: raises)
RadiusArgs == {None, Some("500"), Some("abc")}

int_radius(arg) ==
    CASE arg = None        -> Some(1000)
      [] arg = Some("500") -> Some(500)
      [] OTHER             -> None

\* request.args.get('location')
LocationArgs == {None, Some("")} \cup {Some(l) : l \in Locations}

\* get_geocode never returns None: every failure falls back to the mock,
\* which knows Phoenix and answers f"{location}, USA" for the other two
get_geocode(location) ==
    Some([formatted_address |->
            CASE location = "Phoenix" -> "Phoenix, AZ, USA"
              [] location = "Austin"  -> "Austin, USA"
              [] OTHER                -> "Unknown City, USA"])

ok_response(data) == [status |-> "success", code |-> 200, data |-> data]

error_response(code, message) == [status |-> "error", code |-> code, message |-> message]

\* the six unrounded scores of the scoring block, in 1/20000
category_scores(around) ==
    <<calculate_category_score(around.schools, "school"),
      calculate_category_score(around.hospitals, "hospital"),
      calculate_category_score(around.transport, "transport"),
      75 * 20000,
      calculate_green_score(around.parks, around.details.green_areas),
      calculate_development_score(around.details)>>

\* the scoring block of both endpoints: category scores, weighted total,
\* one-decimal rounding into a LocationScore
compute_location_score(formatted_address, around) ==
    LET s == category_scores(around)
    IN  LocationScore(formatted_address,
                      round1(weighted_total(s[1], s[2], s[3], s[4], s[5], s[6]), 400000),
                      round1(s[1], 20000), round1(s[2], 20000), round1(s[3], 20000),
                      round1(s[4], 20000), round1(s[5], 20000), round1(s[6], 20000))

\* one location of either endpoint, from the cache lookup on: the record it
\* yields (None: geocoding failed) and the table afterwards.
\* env: db_up (the store is reachable while the request is served), draws
\* (the sample generator's), around (the collaborators' answers)
score_one(rows, location, env) ==
    LET cached_score == get_location_score(rows, location, env.db_up, env.draws)
    IN  IF cached_score # None
        THEN [score |-> cached_score, rows |-> rows]
        ELSE IF get_geocode(location) = None
        THEN [score |-> None, rows |-> rows]
        ELSE LET location_score ==
                     compute_location_score(The(get_geocode(location)).formatted_address,
                                            env.around)
             IN  [score |-> Some(location_score),
                  rows |-> save_location_score(rows, location_score.location,
                                               location_score, env.db_up)]

\* GET /score: the response and the table afterwards
get_location_score_endpoint(rows, location, radius, env) ==
    IF int_radius(radius) = None
    THEN [response |-> error_response(500, "Failed to calculate location score"),
          rows |-> rows]
    ELSE IF location = None \/ location = Some("")
    THEN [response |-> error_response(400, "Missing required parameter: location"),
          rows |-> rows]
    ELSE LET one == score_one(rows, The(location), env)
         IN  IF one.score = None
             THEN [response |-> error_response(400, "Failed to geocode the location"),
                   rows |-> rows]
             ELSE [response |-> ok_response(The(one.score)), rows |-> one.rows]

\* GET /compare over the already split and stripped list of locations; envs
\* gives the collaborators' answers for each position of the list
RECURSIVE compare_loop(_, _, _, _)
compare_loop(rows, locations, envs, acc) ==
    IF locations = <<>> THEN [scores |-> acc, rows |-> rows]
    ELSE LET one == score_one(rows, Head(locations), Head(envs))
         IN  compare_loop(one.rows, Tail(locations), Tail(envs),
                          IF one.score = None THEN acc
                          ELSE Append(acc, The(one.score)))

compare_locations(rows, locations, radius, envs) ==
    IF int_radius(radius) = None
    THEN [response |-> error_response(500, "Failed to compare locations"), rows |-> rows]
    ELSE IF locations = <<>>
    THEN [response |-> error_response(400, "Missing required parameter: locations"),
          rows |-> rows]
    ELSE LET done == compare_loop(rows, locations, envs, <<>>)
         IN  [response |-> ok_response(done.scores), rows |-> done.rows]

----------------------------------------------------------------------------
(* The location service as a state machine: requests served one after      *)
(* another against the table.                                              *)

Init ==
    /\ location_scores = <<>>
    /\ roi_calculations = <<>>
    /\ investment_recommendations = <<>>
    /\ request = [op |-> "none"]
    /\ response = [status |-> "none"]

\* the collaborators' answers a score or compare request meets
RequestSurroundings ==
    {a \in Surroundings :
        /\ a.schools = <<Place(700)>> /\ a.hospitals = <<Place(700)>>
        /\ a.transport = <<>> /\ a.parks = <<>>
        /\ a.details.walkability_score = 90 /\ a.details.amenities = 7
        /\ a.details.green_areas = <<>>}

Envs(Draws) == [db_up : BOOLEAN, draws : Draws, around : RequestSurroundings]

score_request(location, radius) ==
    [op |-> "score", location |-> location, radius |-> radius]

\* locations: the stripped items of the comma-separated parameter, empty
\* when the parameter is missing
compare_request(locations, radius) ==
    [op |-> "compare", locations |-> locations, radius |-> radius]

ScoreRequest ==
    \E location \in LocationArgs, radius \in RadiusArgs, env \in Envs(RequestDraws) :
        LET out == get_location_score_endpoint(location_scores, location, radius, env)
        IN  /\ request' = score_request(location, radius)
            /\ response' = out.response
            /\ location_scores' = out.rows
            /\ UNCHANGED <<roi_calculations, investment_recommendations>>

CompareRequest ==
    \E n \in 0..MaxCompare, radius \in RadiusArgs :
        \E locations \in [1..n -> Locations], envs \in [1..n -> Envs(RequestDraws)] :
            LET out == compare_locations(location_scores, locations, radius, envs)
            IN  /\ request' = compare_request(locations, radius)
                /\ response' = out.response
                /\ location_scores' = out.rows
                /\ UNCHANGED <<roi_calculations, investment_recommendations>>

Next == ScoreRequest \/ CompareRequest

Spec == Init /\ [][Next]_vars

----------------------------------------------------------------------------
(* The scoring functions and the endpoints, each applied once to an input  *)
(* drawn by the initial state.                                             *)

pending == [status |-> "pending"]

value_response(data) == [status |-> "value", data |-> data]

ScoringCalls ==
    {score_request(Some(l), None) : l \in Locations}
    \cup {compare_request(ls, None) : ls \in [1..MaxCompare -> Locations]}
    \cup {[op |-> "calculate_category_score", places |-> p, category |-> c] :
            p \in PlaceLists, c \in {"school", "hospital", "transport", "other"}}
    \cup {[op |-> "calculate_green_score", parks |-> p, green_areas |-> g] :
            p \in PlaceLists, g \in {<<>>, <<Place(700), Place(2000), Place(0)>>}}
    \cup {[op |-> "calculate_development_score", details |-> d] : d \in LocationDetails}
    \cup {[op |-> "compute_location_score", around |-> a] : a \in Surroundings}

InitScoring ==
    /\ location_scores = <<>>
    /\ roi_calculations = <<>>
    /\ investment_recommendations = <<>>
    /\ request \in ScoringCalls
    /\ response = pending

ServeScore ==
    /\ request.op = "score" /\ response = pending
    /\ \E env \in Envs(SampleDraws) :
        LET out == get_location_score_endpoint(location_scores, request.location,
                                               request.radius, env)
        IN  /\ response' = out.response
            /\ location_scores' = out.rows
    /\ UNCHANGED <<request, roi_calculations, investment_recommendations>>

ServeCompare ==
    /\ request.op = "compare" /\ response = pending
    /\ \E envs \in [1..Len(request.locations) -> Envs(RequestDraws)] :
        LET out == compare_locations(location_scores, request.locations,
                                     request.radius, envs)
        IN  /\ response' = out.response
            /\ location_scores' = out.rows
    /\ UNCHANGED <<request, roi_calculations, investment_recommendations>>

CategoryScoreCall ==
    /\ request.op = "calculate_category_score" /\ response = pending
    /\ response' = value_response(calculate_category_score(request.places,
                                                           request.category))
    /\ UNCHANGED <<request, location_scores, roi_calculations, investment_recommendations>>

GreenScoreCall ==
    /\ request.op = "calculate_green_score" /\ response = pending
    /\ response' = value_response(calculate_green_score(request.parks,
                                                        request.green_areas))
    /\ UNCHANGED <<request, location_scores, roi_calculations, investment_recommendations>>

DevelopmentScoreCall ==
    /\ request.op = "calculate_development_score" /\ response = pending
    /\ response' = value_response(calculate_development_score(request.details))
    /\ UNCHANGED <<request, location_scores, roi_calculations, investment_recommendations>>

ComputeScoreCall ==
    /\ request.op = "compute_location_score" /\ response = pending
    /\ response' = ok_response(compute_location_score("Phoenix, AZ, USA",
                                                      request.around))
    /\ UNCHANGED <<request, location_scores, roi_calculations, investment_recommendations>>

NextScoring ==
    \/ ServeScore
    \/ ServeCompare
    \/ CategoryScoreCall
    \/ GreenScoreCall
    \/ DevelopmentScoreCall
    \/ ComputeScoreCall

SpecScoring == InitScoring /\ [][NextScoring]_vars

----------------------------------------------------------------------------
(* Properties of the location scores.                                     *)

\* the LocationScore records in the response handed to the caller
HandedScores ==
    IF response.status # "success" THEN {}
    ELSE IF request.op \in {"score", "compute_location_score"} THEN {response.data}
    ELSE IF request.op = "compare"
    THEN {response.data[i] : i \in 1..Len(response.data)}
    ELSE {}

\* the documented weighted sum of the stored sub-scores, in 1/1000
DocumentedTotal(r) ==
    20 * r.schools_score + 15 * r.hospitals_score + 20 * r.transport_score
    + 20 * r.crime_score + 10 * r.green_zones_score + 15 * r.development_score

\* C1: every LocationScore handed to a caller, computed or synthetic, has a
\* total within 0.1 (one unit of the stored decimal place) of
\* 0.20*schools + 0.15*hospitals + 0.20*transport + 0.20*crime + 0.10*green
\* + 0.15*development recomputed from its stored one-decimal sub-scores.
C1_TotalIsWeightedSum ==
    \A r \in HandedScores : Abs(100 * r.total_score - DocumentedTotal(r)) <= 100

\* a synthetic record was handed out whose stored total differs from the
\* recomputed sum, by rounding alone
C1_Witness ==
    /\ request.op = "score" /\ response.status = "success"
    /\ 100 * response.data.total_score # DocumentedTotal(response.data)

InScoreRange(units) == 0 <= units /\ units <= 100 * 20000

InTenthsRange(tenths) == 0 <= tenths /\ tenths <= 1000

\* C2: for any number of places, distances, walkability and amenity count the
\* school, hospital, transport, green and development scores and the
\* composite total lie in [0,100], and a category with zero places scores
\* exactly 0, as a value and not an error.
C2_ScoresInRange ==
    /\ (request.op = "calculate_category_score" /\ response # pending) =>
          /\ response.status = "value"
          /\ InScoreRange(response.data)
          /\ (request.places = <<>> => response.data = 0)
    /\ (request.op = "calculate_green_score" /\ response # pending) =>
          /\ response.status = "value"
          /\ InScoreRange(response.data)
          /\ (request.parks \o request.green_areas = <<>> => response.data = 0)
    /\ (request.op = "calculate_development_score" /\ response # pending) =>
          /\ response.status = "value"
          /\ InScoreRange(response.data)
    /\ (request.op = "compute_location_score" /\ response # pending) =>
          /\ response.status = "success"
          /\ InTenthsRange(response.data.total_score)
          /\ InTenthsRange(response.data.schools_score)
          /\ InTenthsRange(response.data.hospitals_score)
          /\ InTenthsRange(response.data.transport_score)
          /\ InTenthsRange(response.data.green_zones_score)
          /\ InTenthsRange(response.data.development_score)
          /\ (request.around.schools = <<>> => response.data.schools_score = 0)
          /\ (request.around.hospitals = <<>> => response.data.hospitals_score = 0)
          /\ (request.around.transport = <<>> => response.data.transport_score = 0)

\* zero schools were found and the block still produced a record, scoring
\* the schools 0 within a positive total
C2_Witness ==
    /\ request.op = "compute_location_score" /\ response.status = "success"
    /\ request.around.schools = <<>> /\ response.data.schools_score = 0
    /\ response.data.total_score > 0

\* C3 as stated: after a score request answered with a score, the next score
\* request for the same location string is answered with that same record.
C3_RepeatReturnsSameRecord ==
    [][(/\ request.op = "score" /\ response.status = "success"
        /\ request'.op = "score" /\ response'.status = "success"
        /\ request'.location = request.location)
       => response'.data = response.data]_vars

----------------------------------------------------------------------------
(* The market direction forecaster.  Indicator values are in hundredths;   *)
(* a value is None where the data frame holds NaN.                         *)

Indicator(date, value) == [date |-> date, value |-> value]

\* an element that is not an EconomicIndicator: it has no attribute date
NotAnIndicator == [value |-> Some(200)]

RECURSIVE SumSeq(_)
SumSeq(s) == IF s = <<>> THEN 0 ELSE Head(s) + SumSeq(Tail(s))

\* df.sort_values('date'): ascending by date, rows of equal date in the order given
sort_values(rows) ==
    [i \in 1..Len(rows) |->
        rows[CHOOSE j \in 1..Len(rows) :
                Cardinality({k \in 1..Len(rows) :
                                \/ rows[k].date < rows[j].date
                                \/ (rows[k].date = rows[j].date /\ k < j)}) = i - 1]]

\* the data frame without the guard for an empty list: no column date to sort by
indicators_to_dataframe_unguarded(indicators) ==
    IF indicators = <<>> \/ \E i \in 1..Len(indicators) : "date" \notin DOMAIN indicators[i]
    THEN None
    ELSE Some(sort_values(indicators))

\* the rows of the data frame, or None where building it raises
indicators_to_dataframe(indicators) ==
    IF indicators = <<>> THEN Some(<<>>)
    ELSE IF \E i \in 1..Len(indicators) : "date" \notin DOMAIN indicators[i]
    THEN None
    ELSE Some(sort_values(indicators))

\* df['value']
value_column(rows) == [i \in 1..Len(rows) |-> rows[i].value]

\* series.tail(n)
tail(series, n) == SubSeq(series, Len(series) - n + 1, Len(series))

\* series.head(n)
head(series, n) == SubSeq(series, 1, n)

\* the slope of the least-squares line through (0, y[1]), ..., (n-1, y[n]) is
\* slope_numerator(y) / slope_denominator(Len(y)), in hundredths
slope_numerator(y) ==
    Len(y) * SumSeq([i \in 1..Len(y) |-> (i - 1) * The(y[i])])
    - SumSeq([i \in 1..Len(y) |-> i - 1]) * SumSeq([i \in 1..Len(y) |-> The(y[i])])

slope_denominator(n) ==
    n * SumSeq([i \in 1..n |-> (i - 1) * (i - 1)])
    - SumSeq([i \in 1..n |-> i - 1]) * SumSeq([i \in 1..n |-> i - 1])

classify_slope(num, den) ==
    IF num * 10 > den * 100 THEN "increasing"
    ELSE IF num * 10 < -(den * 100) THEN "decreasing"
    ELSE "stable"

\* the classifier looking at the first points of the series
analyze_trend_head(series) ==
    IF Len(series) < 2 THEN "neutral"
    ELSE LET y == head(series, Min2(6, Len(series)))
         IN  IF \E i \in 1..Len(y) : y[i] = None THEN "neutral"
             ELSE classify_slope(slope_numerator(y), slope_denominator(Len(y)))

\* fitting a window that holds NaN raises, which the function answers neutral
analyze_trend(series) ==
    IF Len(series) < 2 THEN "neutral"
    ELSE LET y == tail(series, Min2(6, Len(series)))
         IN  IF \E i \in 1..Len(y) : y[i] = None THEN "neutral"
             ELSE classify_slope(slope_numerator(y), slope_denominator(Len(y)))

\* df['value'].mean() > 4.0, the mean skipping NaN
mean_above_4(values) ==
    LET present == SelectSeq(values, LAMBDA v : v # None)
    IN  /\ present # <<>>
        /\ SumSeq([i \in 1..Len(present) |-> The(present[i])]) > 400 * Len(present)

\* an interest-rate impact that gives nothing for a neutral trend
interest_rate_impact_flat(interest_trend) ==
    IF interest_trend = "decreasing" THEN 2
    ELSE IF interest_trend = "neutral" THEN 0
    ELSE -1

interest_rate_impact(interest_trend) ==
    IF interest_trend = "decreasing" THEN 2
    ELSE IF interest_trend = "neutral" THEN 1
    ELSE -1

inflation_impact(inflation_trend, high_mean) ==
    IF inflation_trend = "increasing" /\ high_mean THEN -1
    ELSE IF inflation_trend = "stable" \/ (inflation_trend = "increasing" /\ ~high_mean)
    THEN 1
    ELSE 0

\* the GDP contribution with a stable trend counted like a neutral one
gdp_impact_stable_neutral(gdp_trend) ==
    IF gdp_trend = "increasing" THEN 2
    ELSE IF gdp_trend = "neutral" \/ gdp_trend = "stable" THEN 0
    ELSE -2

gdp_impact(gdp_trend) ==
    IF gdp_trend = "increasing" THEN 2
    ELSE IF gdp_trend = "neutral" THEN 0
    ELSE -2

\* a label that already calls a score of 2 strong growth
market_direction_early(market_score) ==
    IF market_score >= 2 THEN "strong growth"
    ELSE IF market_score >= 1 THEN "moderate growth"
    ELSE IF market_score <= -3 THEN "sharp decline"
    ELSE IF market_score <= -1 THEN "moderate decline"
    ELSE "neutral"

market_direction(market_score) ==
    IF market_score >= 3 THEN "strong growth"
    ELSE IF market_score >= 1 THEN "moderate growth"
    ELSE IF market_score <= -3 THEN "sharp decline"
    ELSE IF market_score <= -1 THEN "moderate decline"
    ELSE "neutral"

\* Python round(x, 2) of the float x = n/d (d > 0), in hundredths
round2(n, d) ==
    LET q == (100 * n) \div d
        r == (100 * n) % d
    IN  IF 2 * r > d \/ (2 * r = d /\ q % 2 = 1) THEN q + 1 ELSE q

\* min(0.6 + abs(market_score) * 0.05, 0.95), rounded, in hundredths
confidence_level(market_score) == round2(Min2(60 + Abs(market_score) * 5, 95), 100)

\* monthly change range and volatility of a trend, in hundredths of a percent
forecast_band(trend) ==
    CASE trend = "strong growth"    -> [lo |-> 80, hi |-> 150, volatility |-> 30]
      [] trend = "moderate growth"  -> [lo |-> 30, hi |-> 80, volatility |-> 20]
      [] trend = "neutral"          -> [lo |-> -20, hi |-> 30, volatility |-> 20]
      [] trend = "moderate decline" -> [lo |-> -80, hi |-> -30, volatility |-> 30]
      [] trend = "sharp decline"    -> [lo |-> -150, hi |-> -80, volatility |-> 40]
      [] OTHER                      -> [lo |-> 0, hi |-> 0, volatility |-> 10]

\* the random draws of one forecast: the monthly change at an end of its range,
\* the noise of the months alternating between the ends of the volatility
ForecastDraws == [high : BOOLEAN, noise : {-1, 1}]

\* the points carry the month offset and change_pct; the compounded index is
\* not carried
generate_forecast_points(months, trend, draw) ==
    [i \in 1..months |->
        [month |-> i - 1,
         change_pct |->
            (IF draw.high THEN forecast_band(trend).hi ELSE forecast_band(trend).lo)
            + (IF i % 2 = 1 THEN draw.noise ELSE -draw.noise)
              * forecast_band(trend).volatility]]

\* the trend of a data frame: analyze_trend unless the frame is empty
trend_of(df) == IF df = <<>> THEN "neutral" ELSE analyze_trend(value_column(df))

market_score(interest_trend, inflation_trend, high_mean, gdp_trend) ==
    interest_rate_impact(interest_trend) + inflation_impact(inflation_trend, high_mean)
    + gdp_impact(gdp_trend)

fallback_forecast(draw) ==
    [data |-> [market_direction |-> "uncertain", confidence |-> 50,
               forecast_points |-> generate_forecast_points(12, "neutral", draw),
               error |-> "AttributeError"]]

\* the payload returned for the three trends, with the locals at the return
forecast_payload(interest_trend, inflation_trend, high_mean, gdp_trend, draw) ==
    [data |->
        [market_direction |->
            market_direction(market_score(interest_trend, inflation_trend, high_mean, gdp_trend)),
         confidence |->
            confidence_level(market_score(interest_trend, inflation_trend, high_mean, gdp_trend)),
         forecast_points |->
            generate_forecast_points(12,
                market_direction(market_score(interest_trend, inflation_trend, high_mean, gdp_trend)),
                draw),
         factors |->
            [interest_rates |->
                [trend |-> interest_trend,
                 impact |-> IF interest_trend = "decreasing" THEN "positive"
                            ELSE IF interest_trend = "increasing" THEN "negative"
                            ELSE "neutral"],
             inflation |->
                [trend |-> inflation_trend,
                 impact |-> IF inflation_trend = "increasing" /\ high_mean
                            THEN "negative" ELSE "neutral"],
             gdp |->
                [trend |-> gdp_trend,
                 impact |-> IF gdp_trend = "increasing" THEN "positive"
                            ELSE IF gdp_trend = "decreasing" THEN "negative"
                            ELSE "neutral"]]],
     locals |->
        [interest |-> interest_rate_impact(interest_trend),
         inflation |-> inflation_impact(inflation_trend, high_mean),
         gdp |-> gdp_impact(gdp_trend),
         market_score |-> market_score(interest_trend, inflation_trend, high_mean, gdp_trend)]]

forecast_market_direction(interest_rates, inflation_data, gdp_data, draw) ==
    IF \/ indicators_to_dataframe(interest_rates) = None
       \/ indicators_to_dataframe(inflation_data) = None
       \/ indicators_to_dataframe(gdp_data) = None
    THEN fallback_forecast(draw)
    ELSE forecast_payload(
             trend_of(The(indicators_to_dataframe(interest_rates))),
             trend_of(The(indicators_to_dataframe(inflation_data))),
             mean_above_4(value_column(The(indicators_to_dataframe(inflation_data)))),
             trend_of(The(indicators_to_dataframe(gdp_data))),
             draw)

----------------------------------------------------------------------------
(* The trend classifier and the forecaster, each applied once to an input  *)
(* drawn by the initial state.                                             *)

MaxSeries == 7
RampLen == 3

\* 2.00, 2.35 and 3.10: no window over them has a slope of exactly 0.1 or
\* -0.1, where the rounding of the floating-point fit would decide
TrendValues == {200, 235, 310}

TrendSeries ==
    UNION {[1..n -> {Some(v) : v \in TrendValues}] : n \in 0..MaxSeries}
    \cup {<<Some(200), None, Some(310)>>, <<None>>,
          <<None, Some(200), Some(235), Some(310), Some(310), Some(310), Some(310)>>}

ramp(start, step, n) == [i \in 1..n |-> Some(start + step * (i - 1))]

ValueLists ==
    {<<>>, <<Some(200)>>,
     ramp(100, 50, RampLen), ramp(400, 50, RampLen), ramp(200, 5, 2 * RampLen),
     ramp(200, 0, RampLen), ramp(500, -50, RampLen), ramp(225, -5, 2 * RampLen),
     <<Some(2000), Some(2000)>> \o ramp(100, 20, 6),
     <<Some(200), None, Some(300)>>}

\* the indicators of a value list, given oldest first or newest first
indicators_of(values, newest_first) ==
    [i \in 1..Len(values) |->
        IF newest_first
        THEN Indicator(Len(values) + 1 - i, values[Len(values) + 1 - i])
        ELSE Indicator(i, values[i])]

IndicatorLists ==
    {indicators_of(v, FALSE) : v \in ValueLists}
    \cup {indicators_of(ramp(100, 50, RampLen), TRUE),
          indicators_of(ramp(500, -50, RampLen), TRUE),
          <<Indicator(1, Some(200)), NotAnIndicator>>}

MarketCalls ==
    {[op |-> "analyze_trend", series |-> s] : s \in TrendSeries}
    \cup {[op |-> "forecast_market_direction", interest_rates |-> i,
           inflation_data |-> f, gdp_data |-> g] :
            i \in IndicatorLists, f \in IndicatorLists, g \in IndicatorLists}

InitMarket ==
    /\ location_scores = <<>>
    /\ roi_calculations = <<>>
    /\ investment_recommendations = <<>>
    /\ request \in MarketCalls
    /\ response = pending

TrendCall ==
    /\ request.op = "analyze_trend" /\ response = pending
    /\ response' = value_response(analyze_trend(request.series))
    /\ UNCHANGED <<request, location_scores, roi_calculations, investment_recommendations>>

ForecastCall ==
    /\ request.op = "forecast_market_direction" /\ response = pending
    /\ \E draw \in ForecastDraws :
        LET out == forecast_market_direction(request.interest_rates, request.inflation_data,
                                             request.gdp_data, draw)
        IN  response' = [status |-> "value"] @@ out
    /\ UNCHANGED <<request, location_scores, roi_calculations, investment_recommendations>>

NextMarket == TrendCall \/ ForecastCall

SpecMarket == InitMarket /\ [][NextMarket]_vars

----------------------------------------------------------------------------
(* Properties of the trend classifier and the market direction forecaster.*)

\* the documented classification of a window w of n >= 2 values in
\* hundredths: the slope is 6 * sum((2i - n - 1) * w[i]) / (n * (n*n - 1))
DocumentedTrendOfWindow(w) ==
    LET n == Len(w)
        c == SumSeq([i \in 1..n |-> (2 * i - n - 1) * w[i]])
    IN  IF 6 * c > 10 * n * (n * n - 1) THEN "increasing"
        ELSE IF 6 * c < -10 * n * (n * n - 1) THEN "decreasing"
        ELSE "stable"

DocumentedTrend(series) ==
    IF Len(series) < 2 THEN "neutral"
    ELSE LET n == IF Len(series) < 6 THEN Len(series) ELSE 6
         IN  DocumentedTrendOfWindow([i \in 1..n |-> The(series[Len(series) - n + i])])

\* C4: the trend classifier answers neutral for a series of fewer than 2
\* points, and for a longer series of numbers the class of the least-squares
\* slope of its last min(6, length) values against positions 0..n-1:
\* increasing above 0.1, decreasing below -0.1, stable otherwise.
C4_TrendOfLastSix ==
    (/\ request.op = "analyze_trend" /\ response # pending
     /\ \A i \in 1..Len(request.series) : request.series[i] # None)
    => response.data = DocumentedTrend(request.series)

\* a series of seven numbers was classified decreasing although its first
\* six values do not decrease
C4_Witness ==
    /\ request.op = "analyze_trend" /\ response # pending
    /\ Len(request.series) = 7
    /\ \A i \in 1..7 : request.series[i] # None
    /\ \A i \in 1..5 : The(request.series[i]) <= The(request.series[i + 1])
    /\ response.data = "decreasing"

ForecastAnswered ==
    request.op = "forecast_market_direction" /\ response # pending

ForecastScored == ForecastAnswered /\ "locals" \in DOMAIN response

\* the mean of the values given for inflation is above 4.0
InflationMeanHigh ==
    LET given == {i \in 1..Len(request.inflation_data) :
                     request.inflation_data[i].value # None}
        total == SumSeq([i \in 1..Len(request.inflation_data) |->
                            IF i \in given THEN The(request.inflation_data[i].value) ELSE 0])
    IN  given # {} /\ total > 400 * Cardinality(given)

\* C5: the market score is the sum of the three contributions; interest
\* gives +2 when decreasing, +1 when neutral, -1 when increasing; inflation
\* gives -1 when increasing with mean above 4.0 and +1 when stable or
\* increasing with mean at most 4.0; GDP gives +2 when increasing, 0 when
\* neutral, -2 when decreasing; the sum lies within -4..5.
C5_MarketScore ==
    ForecastScored =>
        LET f == response.data.factors
            l == response.locals
        IN  /\ l.market_score = l.interest + l.inflation + l.gdp
            /\ l.market_score >= -4 /\ l.market_score <= 5
            /\ (f.interest_rates.trend = "decreasing" => l.interest = 2)
            /\ (f.interest_rates.trend = "neutral" => l.interest = 1)
            /\ (f.interest_rates.trend = "increasing" => l.interest = -1)
            /\ (f.inflation.trend = "increasing" /\ InflationMeanHigh => l.inflation = -1)
            /\ (f.inflation.trend = "increasing" /\ ~InflationMeanHigh => l.inflation = 1)
            /\ (f.inflation.trend = "stable" => l.inflation = 1)
            /\ (f.gdp.trend = "increasing" => l.gdp = 2)
            /\ (f.gdp.trend = "neutral" => l.gdp = 0)
            /\ (f.gdp.trend = "decreasing" => l.gdp = -2)

\* rising interest, rising inflation with a mean above 4.0 and falling GDP
\* were scored -4, the lowest sum
C5_Witness ==
    /\ ForecastScored
    /\ response.data.factors.interest_rates.trend = "increasing"
    /\ response.data.factors.inflation.trend = "increasing" /\ InflationMeanHigh
    /\ response.data.factors.gdp.trend = "decreasing"
    /\ response.locals.market_score = -4

\* label and confidence (in hundredths) as documented for a score
LabelAndConfidenceFollowScore ==
    ForecastScored =>
        LET sc == response.locals.market_score
        IN  /\ (sc >= 3 => response.data.market_direction = "strong growth")
            /\ (sc \in 1..2 => response.data.market_direction = "moderate growth")
            /\ (sc <= -3 => response.data.market_direction = "sharp decline")
            /\ (sc \in (-2)..(-1) => response.data.market_direction = "moderate decline")
            /\ (sc = 0 => response.data.market_direction = "neutral")
            /\ response.data.confidence = (IF 60 + 5 * Abs(sc) < 95 THEN 60 + 5 * Abs(sc) ELSE 95)

ScoredFiveStrongGrowth ==
    /\ response.locals.market_score = 5
    /\ response.data.market_direction = "strong growth"
    /\ response.data.confidence = 85

\* the values of a list of indicators, oldest first
ByDate(indicators) ==
    [i \in 1..Len(indicators) |->
        The((CHOOSE x \in {indicators[k] : k \in 1..Len(indicators)} : x.date = i).value)]

WellFormed(indicators) ==
    \A i \in 1..Len(indicators) :
        /\ "date" \in DOMAIN indicators[i]
        /\ indicators[i].value # None

StrictlyDecreasing(indicators) ==
    /\ Len(indicators) >= 2 /\ WellFormed(indicators)
    /\ \A i \in 1..(Len(indicators) - 1) : ByDate(indicators)[i] > ByDate(indicators)[i + 1]

StrictlyIncreasing(indicators) ==
    /\ Len(indicators) >= 2 /\ WellFormed(indicators)
    /\ \A i \in 1..(Len(indicators) - 1) : ByDate(indicators)[i] < ByDate(indicators)[i + 1]

FlatAtTwo(indicators) ==
    /\ Len(indicators) >= 2 /\ WellFormed(indicators)
    /\ \A i \in 1..Len(indicators) : indicators[i].value = Some(200)

\* C6 as stated: label and confidence follow the score, and a strictly
\* decreasing interest series, inflation flat at 2.0 and a strictly increasing
\* GDP series give score 5, strong growth and confidence 0.85.
C6_StrictlyMonotoneScoresFive ==
    /\ LabelAndConfidenceFollowScore
    /\ (/\ ForecastAnswered
        /\ StrictlyDecreasing(request.interest_rates)
        /\ FlatAtTwo(request.inflation_data)
        /\ StrictlyIncreasing(request.gdp_data))
       => ("locals" \in DOMAIN response /\ ScoredFiveStrongGrowth)

\* C6, amended: label and confidence follow the score (strong growth from 3,
\* moderate growth for 1..2, sharp decline up to -3, moderate decline for
\* -2..-1, neutral for 0; confidence min(0.6 + 0.05*|score|, 0.95)), and an
\* interest series classified decreasing (slope below -0.1), inflation flat
\* at 2.0 and a GDP series classified increasing (slope above 0.1) give
\* score 5, strong growth and confidence 0.85.
C6_LabelAndConfidence ==
    /\ LabelAndConfidenceFollowScore
    /\ (/\ ForecastScored
        /\ response.data.factors.interest_rates.trend = "decreasing"
        /\ FlatAtTwo(request.inflation_data)
        /\ response.data.factors.gdp.trend = "increasing")
       => ScoredFiveStrongGrowth

\* falling interest, inflation flat at 2.0 and rising GDP were scored 5
C6_Witness ==
    /\ ForecastScored
    /\ StrictlyDecreasing(request.interest_rates)
    /\ response.data.factors.interest_rates.trend = "decreasing"
    /\ FlatAtTwo(request.inflation_data)
    /\ response.data.factors.gdp.trend = "increasing"
    /\ ScoredFiveStrongGrowth

\* some stage of the forecaster raises on the request: an element of an
\* input list is not an indicator
SomeStageRaises ==
    \E l \in {request.interest_rates, request.inflation_data, request.gdp_data} :
        \E i \in 1..Len(l) : "date" \notin DOMAIN l[i]

\* C7: the forecaster always returns a value; when a stage raises the value
\* is the fallback (label uncertain, confidence 0.5, twelve forecast points
\* in the neutral band, an error field); when no stage raises - as with empty
\* or single-point series - the value has no error field.
C7_FallbackOnError ==
    ForecastAnswered =>
        /\ response.status = "value"
        /\ SomeStageRaises =>
              /\ "error" \in DOMAIN response.data
              /\ response.data.market_direction = "uncertain"
              /\ response.data.confidence = 50
              /\ Len(response.data.forecast_points) = 12
              /\ \A i \in 1..12 : response.data.forecast_points[i].change_pct \in (-40)..50
        /\ ~SomeStageRaises =>
              /\ "error" \notin DOMAIN response.data
              /\ response.data.market_direction # "uncertain"

\* a list holding something that is no indicator, beside an empty list, was
\* answered with the fallback
C7_Witness ==
    /\ ForecastAnswered
    /\ request.interest_rates = <<>>
    /\ SomeStageRaises
    /\ response.data.market_direction = "uncertain"
    /\ "error" \in DOMAIN response.data

----------------------------------------------------------------------------
(* The ROI calculator.  Amounts are whole thousands of dollars; a float    *)
(* that is not a whole number is the pair <<n, d>> of the fraction n/d,    *)
(* not reduced.  Rates are in thousandths.                                 *)

RECURSIVE GCD(_, _)
GCD(a, b) == IF b = 0 THEN a ELSE GCD(b, a % b)

RECURSIVE pow(_, _)
pow(base, exponent) == IF exponent = 0 THEN 1 ELSE base * pow(base, exponent - 1)

\* location.split(',')[0].strip()
city_of(location) ==
    CASE location = "Phoenix, AZ"      -> "Phoenix"
      [] location = "Los Angeles, CA"  -> "Los Angeles"
      [] location = "Dallas, TX"       -> "Dallas"
      [] location = "Austin, TX"       -> "Austin"
      [] location = "San Francisco, CA" -> "San Francisco"
      [] location = "San Francisco"    -> "San Francisco"
      [] location = "New York, NY"     -> "New York"
      [] location = " Chicago , IL"    -> "Chicago"
      [] OTHER                         -> "Unknown City"

\* the residential, commercial and land growth rates of the cities listed
growth_rates ==
    [c \in {"New York", "San Antonio", "Dallas"} |-> <<40, 35, 45>>]
    @@ [c \in {"Los Angeles", "San Diego"} |-> <<45, 40, 50>>]
    @@ [c \in {"Chicago", "Philadelphia"} |-> <<25, 20, 30>>]
    @@ [c \in {"Houston", "San Francisco"} |-> <<35, 30, 40>>]
    @@ [c \in {"Phoenix"} |-> <<50, 45, 55>>]

rate_of_type(rates, property_type) ==
    CASE property_type = "residential" -> rates[1]
      [] property_type = "commercial"  -> rates[2]
      [] property_type = "land"        -> rates[3]
      [] OTHER                         -> 30

estimate_growth_rate(location, property_type) ==
    IF city_of(location) \in DOMAIN growth_rates
    THEN rate_of_type(growth_rates[city_of(location)], property_type)
    ELSE rate_of_type(<<30, 25, 35>>, property_type)

\* (1 + rate) ** timeframe for a whole timeframe, as <<n, d>> in lowest terms
appreciation_factor(rate, timeframe) ==
    LET g == GCD(1000 + rate, 1000)
    IN  IF timeframe >= 0
        THEN <<pow((1000 + rate) \div g, timeframe), pow(1000 \div g, timeframe)>>
        ELSE <<pow(1000 \div g, -timeframe), pow((1000 + rate) \div g, -timeframe)>>

\* the residential and commercial price-to-rent ratios of the cities listed
price_to_rent_ratios ==
    [c \in {"New York", "San Diego"} |-> <<20, 12>>]
    @@ [c \in {"Los Angeles"} |-> <<22, 13>>]
    @@ [c \in {"Chicago"} |-> <<16, 10>>]
    @@ [c \in {"Houston", "San Antonio"} |-> <<14, 9>>]
    @@ [c \in {"Phoenix", "Philadelphia", "Dallas"} |-> <<15, 10>>]
    @@ [c \in {"San Francisco"} |-> <<25, 14>>]

price_to_rent_ratio(location, property_type) ==
    IF city_of(location) \in DOMAIN price_to_rent_ratios
       /\ property_type \in {"residential", "commercial"}
    THEN price_to_rent_ratios[city_of(location)][IF property_type = "residential" THEN 1 ELSE 2]
    ELSE CASE property_type = "residential" -> 18
           [] property_type = "commercial"  -> 11
           [] property_type = "land"        -> 40
           [] OTHER                         -> 18

\* property_value / (ratio * 12)
estimate_monthly_rent(location, property_type, property_value) ==
    <<property_value, price_to_rent_ratio(location, property_type) * 12>>

\* a penalty of once the timeframe in months
flip_breakeven_months_single(profit_numerator, timeframe) ==
    IF profit_numerator <= 0 THEN timeframe * 12 ELSE 0

\* breakeven of a flip from the numerator of the profit, whose denominator
\* is positive
flip_breakeven_months(profit_numerator, timeframe) ==
    IF profit_numerator <= 0 THEN timeframe * 12 * 2 ELSE 0

\* breakeven_months: a number of months, the quotient investment / net, or
\* float('inf')
months(n) == [never |-> FALSE, months |-> n]
quotient(investment, net, per) == [never |-> FALSE, investment |-> investment, net |-> net, per |-> per]
never == [never |-> TRUE]

\* the flip branch; profit = 0.94 * future_value - 1.05 * price
\*                          - 0.01 * price * min(1, timeframe) - additional
flip_roi(purchase_price, timeframe, additional_investment, f) ==
    LET profit == purchase_price * (94 * f[1] - (105 + Min2(1, timeframe)) * f[2])
                  - 100 * additional_investment * f[2]
    IN  [strategy |-> "flip",
         roi_percentage |-> <<profit, f[2] * (purchase_price + additional_investment)>>,
         breakeven_months |-> months(flip_breakeven_months(profit, timeframe)),
         monthly_cash_flow |-> <<0, 1>>,
         total_return |-> <<profit, 100 * f[2]>>,
         future_value |-> <<purchase_price * f[1], f[2]>>,
         timeframe_years |-> timeframe]

\* expected_rent - expected_expenses after their defaults: the estimated
\* rent, and 40% of the rent
rent_cash_flow(location, property_type, purchase_price, expected_rent, expected_expenses) ==
    LET rent == IF expected_rent <= 0
                THEN estimate_monthly_rent(location, property_type, purchase_price)
                ELSE <<expected_rent, 1>>
        expenses == IF expected_expenses <= 0 THEN <<2 * rent[1], 5 * rent[2]>>
                    ELSE <<expected_expenses, 1>>
    IN  <<rent[1] * expenses[2] - expenses[1] * rent[2], rent[2] * expenses[2]>>

\* the rent branch, which divides the ROI by the timeframe; the keys carried
\* are those below
rent_roi(purchase_price, timeframe, additional_investment, monthly_cash_flow, f) ==
    IF timeframe = 0 THEN None
    ELSE Some([strategy |-> "rent",
               breakeven_months |->
                   IF monthly_cash_flow[1] <= 0 THEN never
                   ELSE quotient(purchase_price + additional_investment,
                                 monthly_cash_flow, "month"),
               monthly_cash_flow |-> monthly_cash_flow,
               total_rental_income |->
                   <<monthly_cash_flow[1] * 12 * timeframe, monthly_cash_flow[2]>>,
               future_value |-> <<purchase_price * f[1], f[2]>>,
               timeframe_years |-> timeframe])

\* the hold branch, which divides by the timeframe; profit and the yearly
\* net gain have the numerator price * (200 * (f1 - f2) - 3 * f2 * timeframe)
hold_roi(purchase_price, timeframe, additional_investment, f) ==
    LET net == purchase_price * (200 * (f[1] - f[2]) - 3 * f[2] * timeframe)
    IN  IF timeframe = 0 THEN None
        ELSE Some([strategy |-> "hold",
                   breakeven_months |->
                       IF (timeframe > 0 /\ net <= 0) \/ (timeframe < 0 /\ net >= 0)
                       THEN never
                       ELSE quotient(purchase_price + additional_investment,
                                     <<net, 200 * f[2] * timeframe>>, "year"),
                   monthly_cash_flow |-> <<-purchase_price, 800>>,
                   total_return |-> <<net, 200 * f[2]>>,
                   future_value |-> <<purchase_price * f[1], f[2]>>,
                   timeframe_years |-> timeframe])

\* the result dictionary, or None where the function raises ZeroDivisionError
calculate_investment_roi(location, property_type, purchase_price, investment_goal, timeframe, additional_investment, expected_rent, expected_expenses) ==
    LET f == appreciation_factor(estimate_growth_rate(location, property_type), timeframe)
    IN  IF investment_goal = "flip"
        THEN Some(flip_roi(purchase_price, timeframe, additional_investment, f))
        ELSE IF investment_goal = "rent"
        THEN rent_roi(purchase_price, timeframe, additional_investment,
                      rent_cash_flow(location, property_type, purchase_price,
                                     expected_rent, expected_expenses), f)
        ELSE hold_roi(purchase_price, timeframe, additional_investment, f)

\* the insert fails without a connection and for float('inf') in the INTEGER
\* column breakeven_months
save_roi_calculation(rows, location, property_type, investment_goal, purchase_price, roi_data, db_up) ==
    IF ~db_up \/ roi_data.breakeven_months.never THEN rows
    ELSE Append(rows, [location |-> location, property_type |-> property_type,
                       investment_goal |-> investment_goal,
                       purchase_price |-> purchase_price,
                       breakeven_months |-> roi_data.breakeven_months,
                       monthly_cash_flow |-> roi_data.monthly_cash_flow])

\* POST /api/roi-calculator/calculate; timeframe is None when the field is
\* missing
roi_calculator_calculate_roi(rows, data, db_up) ==
    IF data.timeframe = None \/ The(data.timeframe) = 0
    THEN [response |-> error_response(400, "Missing required fields"), rows |-> rows]
    ELSE LET roi_result ==
                 calculate_investment_roi(data.location, data.property_type,
                                          data.purchase_price, data.investment_goal,
                                          The(data.timeframe), data.additional_investment,
                                          data.expected_rent, data.expected_expenses)
         IN  IF roi_result = None
             THEN [response |-> error_response(500, "division by zero"), rows |-> rows]
             ELSE [response |-> ok_response(The(roi_result)),
                   rows |-> save_roi_calculation(rows, data.location, data.property_type,
                                                 data.investment_goal, data.purchase_price,
                                                 The(roi_result), db_up)]

----------------------------------------------------------------------------
(* The ROI models of the timing engine.  A projection that compounds the   *)
(* appreciation and carries the random market factor is kept as its        *)
(* factors; rates are in 1/10000 and the market factor in percent.         *)

hot_markets == {"New York", "San Francisco", "Los Angeles", "Seattle", "Austin", "Miami"}

\* int(timeframe) of a JSON number n/d: truncation toward zero
int_timeframe(t) == IF t[1] >= 0 THEN t[1] \div t[2] ELSE -((-t[1]) \div t[2])

\* price * (1 + rate) ** years * factor, with the value added to it before
\* the market adjustment (in tenths) of a flip
projection(price, rate, years, added, adjustment, factor) ==
    [price |-> price, rate |-> rate, years |-> years, added |-> added,
     adjustment |-> adjustment, factor |-> factor]

\* a float computed from the projection and the exact amounts beside it
derived(from) == [derived_from |-> from]

\* None where 12 / holding_period_months raises ZeroDivisionError
calculate_flip_roi(location, property_type, purchase_price, renovation_cost, timeframe, factor) ==
    LET holding_period_months == Min2(timeframe * 12, 12)
        projected_sale_price ==
            projection(purchase_price, 300, holding_period_months \div 12,
                       <<3 * renovation_cost, 2>>,
                       IF city_of(location) \in hot_markets THEN 12 ELSE 10, factor)
    IN  IF holding_period_months = 0 THEN None
        ELSE Some([investment_type |-> "flip",
                   location |-> location,
                   property_type |-> property_type,
                   initial_investment |-> purchase_price + renovation_cost,
                   holding_period |-> <<holding_period_months, "months">>,
                   projected_sale_price |-> projected_sale_price,
                   total_costs |-> derived(projected_sale_price),
                   net_profit |-> derived(projected_sale_price),
                   roi_percent |-> derived(projected_sale_price),
                   annualized_roi_percent |-> derived(projected_sale_price),
                   confidence |-> "medium"])

\* the annual appreciation rate of the rental and hold models
annual_appreciation_rate(location, property_type, land_factor) ==
    LET located == IF city_of(location) \in hot_markets THEN (300 * 3) \div 2 ELSE 300
    IN  IF property_type = "land" THEN (located * land_factor) \div 10
        ELSE IF property_type = "commercial" THEN (located * 9) \div 10
        ELSE located

\* None where 1 / timeframe raises ZeroDivisionError
calculate_rental_roi(location, property_type, purchase_price, renovation_cost, monthly_rent, monthly_expenses, timeframe, factor) ==
    LET future_value ==
            projection(purchase_price, annual_appreciation_rate(location, property_type, 10),
                       timeframe, <<0, 1>>, 10, factor)
    IN  IF timeframe = 0 THEN None
        ELSE Some([investment_type |-> "rental",
                   location |-> location,
                   property_type |-> property_type,
                   initial_investment |-> purchase_price + renovation_cost,
                   monthly_cash_flow |-> monthly_rent - monthly_expenses,
                   annual_cash_flow |-> (monthly_rent - monthly_expenses) * 12,
                   projected_future_value |-> future_value,
                   total_rental_income |-> (monthly_rent - monthly_expenses) * 12 * timeframe,
                   equity_gain |-> derived(future_value),
                   total_return |-> derived(future_value),
                   cash_on_cash_roi_percent |->
                       round2((monthly_rent - monthly_expenses) * 12 * 100,
                              purchase_price + renovation_cost),
                   total_roi_percent |-> derived(future_value),
                   annualized_roi_percent |-> derived(future_value),
                   confidence |-> "medium"])

\* None where 1 / timeframe raises ZeroDivisionError
calculate_hold_roi(location, property_type, purchase_price, renovation_cost, timeframe, factor) ==
    LET future_value ==
            projection(purchase_price, annual_appreciation_rate(location, property_type, 12),
                       timeframe, <<0, 1>>, 10, factor)
    IN  IF timeframe = 0 THEN None
        ELSE Some([investment_type |-> "hold",
                   location |-> location,
                   property_type |-> property_type,
                   initial_investment |-> purchase_price + renovation_cost,
                   holding_period |-> <<timeframe, "years">>,
                   projected_future_value |-> future_value,
                   total_holding_costs |-> <<purchase_price * timeframe, 50>>,
                   selling_costs |-> derived(future_value),
                   net_profit |-> derived(future_value),
                   roi_percent |-> derived(future_value),
                   annualized_roi_percent |-> derived(future_value),
                   confidence |-> "medium"])

\* the strategy chosen by the goal, any goal but flip and rent being a hold
timing_roi_data(data, factor) ==
    IF data.investment_goal = "flip"
    THEN calculate_flip_roi(data.location, data.property_type, data.purchase_price,
                            data.additional_investment, int_timeframe(The(data.timeframe)),
                            factor)
    ELSE IF data.investment_goal = "rent"
    THEN calculate_rental_roi(data.location, data.property_type, data.purchase_price,
                              data.additional_investment, The(data.expected_rent),
                              data.expected_expenses, int_timeframe(The(data.timeframe)),
                              factor)
    ELSE calculate_hold_roi(data.location, data.property_type, data.purchase_price,
                            data.additional_investment, int_timeframe(The(data.timeframe)),
                            factor)

\* POST /api/investment-timing/roi; timeframe and expected_rent are None
\* when the field is missing
calculate_roi(data, factor) ==
    IF data.timeframe = None \/ The(data.timeframe)[1] = 0
    THEN error_response(400, "Missing required parameters")
    ELSE IF data.investment_goal = "rent"
            /\ (data.expected_rent = None \/ data.expected_rent = Some(0))
    THEN error_response(400, "Missing required parameter for rental properties: expected_rent")
    ELSE IF timing_roi_data(data, factor) = None
    THEN error_response(500, "Failed to calculate ROI: division by zero")
    ELSE ok_response(The(timing_roi_data(data, factor)))

----------------------------------------------------------------------------
(* The two ROI endpoints, each applied once to a request drawn by the      *)
(* initial state.                                                          *)

MaxTimeframe == 3

Prices == {100, 200}
Investments == {0, 10}
Goals == {"flip", "rent", "hold", "lease"}

\* the factor random.uniform(0.95, 1.05) at its ends, in percent
MarketFactors == {95, 105}

\* JSON timeframes of the timing endpoint: missing, whole years, half a year
TimingTimeframes ==
    {None, Some(<<1, 2>>)} \cup {Some(<<t, 1>>) : t \in (-1)..MaxTimeframe}

TimingRequests ==
    [op : {"timing_roi"}, location : {"Austin, TX", "Phoenix, AZ"},
     property_type : {"residential", "commercial", "land"},
     purchase_price : Prices, investment_goal : Goals, timeframe : TimingTimeframes,
     additional_investment : Investments, expected_rent : {None, Some(2)},
     expected_expenses : {0, 3}]

\* places and types whose growth rate is a twentieth or a twenty-fifth: the
\* powers of the appreciation stay below 2^31
GrowthCases ==
    {<<"Phoenix, AZ", "residential">>, <<"Los Angeles, CA", "land">>,
     <<"Dallas, TX", "residential">>, <<"Los Angeles, CA", "commercial">>}

\* JSON timeframes of the calculator endpoint: missing or whole years
CalculatorTimeframes == {None} \cup {Some(t) : t \in (-1)..MaxTimeframe}

CalculatorRequests ==
    {[op |-> "calculator_roi", location |-> c[1], property_type |-> c[2],
      purchase_price |-> p, investment_goal |-> g, timeframe |-> t,
      additional_investment |-> a, expected_rent |-> r, expected_expenses |-> e] :
        c \in GrowthCases, p \in Prices, g \in Goals, t \in CalculatorTimeframes,
        a \in Investments, r \in {0, 2}, e \in {0, 1, 3}}

InitROI ==
    /\ location_scores = <<>>
    /\ roi_calculations = <<>>
    /\ investment_recommendations = <<>>
    /\ request \in TimingRequests \cup CalculatorRequests
    /\ response = pending

TimingROICall ==
    /\ request.op = "timing_roi" /\ response = pending
    /\ \E factor \in MarketFactors : response' = calculate_roi(request, factor)
    /\ UNCHANGED <<request, location_scores, roi_calculations, investment_recommendations>>

CalculatorROICall ==
    /\ request.op = "calculator_roi" /\ response = pending
    /\ \E db_up \in BOOLEAN :
        LET out == roi_calculator_calculate_roi(roi_calculations, request, db_up)
        IN  /\ response' = out.response
            /\ roi_calculations' = out.rows
    /\ UNCHANGED <<request, location_scores, investment_recommendations>>

NextROI == TimingROICall \/ CalculatorROICall

SpecROI == InitROI /\ [][NextROI]_vars

----------------------------------------------------------------------------
(* Properties of the ROI operations.                                      *)

TimingAnswered == request.op = "timing_roi" /\ response # pending

CalculatorAnswered == request.op = "calculator_roi" /\ response # pending

\* the request carries a timeframe below 1
TimeframeBelowOne ==
    /\ request.timeframe # None
    /\ IF request.op = "timing_roi"
       THEN The(request.timeframe)[1] < The(request.timeframe)[2]
       ELSE The(request.timeframe) < 1

\* C8 as stated: an ROI request of either endpoint with a timeframe below 1
\* (zero, negative, or a fraction that truncates to 0) is answered with an
\* invalid-input error: no computed ROI, and no failed division.
C8_TimeframeBelowOneRejected ==
    ((TimingAnswered \/ CalculatorAnswered) /\ TimeframeBelowOne)
    => (response.status = "error" /\ response.code = 400)

\* C9: the breakeven months of the flip strategy of the calculator are 0
\* when the net profit is above 0 and 2 * timeframe * 12 when it is 0 or
\* below.
C9_FlipBreakeven ==
    (CalculatorAnswered /\ response.status = "success" /\ response.data.strategy = "flip")
    => response.data.breakeven_months =
          [never |-> FALSE,
           months |-> IF response.data.total_return[1] > 0 THEN 0
                      ELSE 2 * response.data.timeframe_years * 12]

\* a flip over several years came out with a profit and breakeven 0
C9_Witness ==
    /\ CalculatorAnswered /\ response.status = "success"
    /\ response.data.strategy = "flip"
    /\ response.data.timeframe_years > 1
    /\ response.data.total_return[1] > 0
    /\ response.data.breakeven_months.months = 0

\* C10 as stated: each ROI model of the timing engine returns a
\* breakeven-months figure in its result.
C10_TimingResultHasBreakeven ==
    (TimingAnswered /\ response.status = "success")
    => "breakeven_months" \in DOMAIN response.data

----------------------------------------------------------------------------
(* The timing recommendation.  Prices and budgets are whole dollars, rates *)
(* in thousandths, confidences in hundredths; an ROI percentage is the     *)
(* pair <<n, d>> of the fraction n/d with d > 0.                           *)

\* a JSON value that is a string, and one that is a number
json_string(s) == [text |-> s]
json_number == [number |-> 42]

\* Python round(x) of the float x = n/d (d > 0): to the nearest integer,
\* halves to the even one
round0(n, d) ==
    LET q == n \div d
        r == n % d
    IN  IF 2 * r > d \/ (2 * r = d /\ q % 2 = 1) THEN q + 1 ELSE q

\* the residential, commercial and land base prices per square foot
base_prices ==
    [c \in {"New York"} |-> <<750, 950, 450>>]
    @@ [c \in {"Los Angeles"} |-> <<650, 850, 400>>]
    @@ [c \in {"Chicago"} |-> <<350, 500, 200>>]
    @@ [c \in {"Houston"} |-> <<200, 350, 100>>]
    @@ [c \in {"Phoenix"} |-> <<180, 300, 90>>]
    @@ [c \in {"Philadelphia"} |-> <<225, 375, 125>>]
    @@ [c \in {"San Antonio"} |-> <<160, 280, 80>>]
    @@ [c \in {"San Diego"} |-> <<570, 780, 350>>]
    @@ [c \in {"Dallas"} |-> <<210, 360, 110>>]
    @@ [c \in {"San Francisco"} |-> <<1050, 1200, 600>>]

price_of_type(prices, property_type) ==
    CASE property_type = "residential" -> prices[1]
      [] property_type = "commercial"  -> prices[2]
      [] property_type = "land"        -> prices[3]
      [] OTHER                         -> 300

\* the lookup with one default for every type
estimate_base_price_flat_default(location, property_type) ==
    IF city_of(location) \in DOMAIN base_prices
    THEN price_of_type(base_prices[city_of(location)], property_type)
    ELSE 300

estimate_base_price(location, property_type) ==
    IF city_of(location) \in DOMAIN base_prices
    THEN price_of_type(base_prices[city_of(location)], property_type)
    ELSE price_of_type(<<300, 400, 150>>, property_type)

average_size(property_type) ==
    CASE property_type = "residential" -> 2000
      [] property_type = "commercial"  -> 5000
      [] property_type = "land"        -> 10000
      [] OTHER                         -> 2000

\* the jitter random.uniform(0.9, 1.1) at its ends, in tenths
RoiJitters == {9, 11}

\* the expected ROI in percent, times the jitter; the price cancels out:
\*   flip  ((1 + g) * 1.2 / 1.15 - 1) * 100
\*   rent  (0.7 * timeframe / ratio + (1 + g) ** timeframe - 1) * 100
\*   hold  ((1 + g) ** timeframe - 1) * 100
calculate_expected_roi(location, property_type, investment_goal, timeframe, jitter) ==
    LET rate == estimate_growth_rate(location, property_type)
        f == appreciation_factor(rate, timeframe)
        ratio == price_to_rent_ratio(location, property_type)
    IN  IF investment_goal = "flip"
        THEN <<((1000 + rate) * 120 - 115000) * jitter, 11500>>
        ELSE IF investment_goal = "rent"
        THEN <<(7 * timeframe * f[2] + 10 * ratio * (f[1] - f[2])) * jitter,
               ratio * f[2]>>
        ELSE <<100 * (f[1] - f[2]) * jitter, 10 * f[2]>>

\* the decision table: recommendation, confidence and optimal time, the
\* range "a-b months" written <<a, b>>
decision_table(investment_goal, interest_trend, inflation_trend) ==
    IF investment_goal = "flip"
    THEN IF interest_trend = "decreasing" /\ inflation_trend # "increasing"
         THEN [recommendation |-> "buy", confidence |-> 85, optimal_time |-> <<1, 3>>]
         ELSE IF interest_trend = "increasing" /\ inflation_trend = "increasing"
         THEN [recommendation |-> "wait", confidence |-> 80, optimal_time |-> <<6, 12>>]
         ELSE [recommendation |-> "neutral", confidence |-> 70, optimal_time |-> <<3, 6>>]
    ELSE IF investment_goal = "rent"
    THEN IF interest_trend # "increasing"
         THEN [recommendation |-> "buy", confidence |-> 80, optimal_time |-> <<1, 3>>]
         ELSE [recommendation |-> "neutral", confidence |-> 70, optimal_time |-> <<3, 6>>]
    ELSE IF interest_trend = "decreasing" \/ inflation_trend = "increasing"
         THEN [recommendation |-> "buy", confidence |-> 75, optimal_time |-> <<1, 6>>]
         ELSE [recommendation |-> "neutral", confidence |-> 65, optimal_time |-> <<6, 12>>]

\* the ROI adjustment made before the budget adjustment
timing_adjustments_roi_first(base, budget, roi_expectation, current_price, roi_estimate) ==
    LET short == roi_expectation # None /\ The(roi_expectation) # 0
                 /\ roi_estimate[1] < The(roi_expectation) * roi_estimate[2]
        by_roi == IF short /\ base.recommendation = "buy"
                  THEN [base EXCEPT !.recommendation = "research alternatives",
                                    !.confidence = @ - 10]
                  ELSE base
    IN  IF budget # None /\ The(budget) # 0 /\ The(budget) < current_price
           /\ by_roi.recommendation = "buy"
        THEN [by_roi EXCEPT !.recommendation = "save",
                            !.optimal_time =
                                <<round0(5 * (current_price - The(budget)), The(budget))>>]
        ELSE by_roi

\* the two adjustments of the table's result: the budget, then the ROI
\* expectation; "k months" is written <<k>>
timing_adjustments(base, budget, roi_expectation, current_price, roi_estimate) ==
    LET by_budget ==
            IF budget # None /\ The(budget) # 0 /\ The(budget) < current_price
               /\ base.recommendation = "buy"
            THEN [base EXCEPT !.recommendation = "save",
                              !.optimal_time =
                                  <<round0(5 * (current_price - The(budget)), The(budget))>>]
            ELSE base
    IN  IF roi_expectation # None /\ The(roi_expectation) # 0
           /\ roi_estimate[1] < The(roi_expectation) * roi_estimate[2]
           /\ by_budget.recommendation = "buy"
        THEN [by_budget EXCEPT !.recommendation = "research alternatives",
                               !.confidence = @ - 10]
        ELSE by_budget

\* 'favorable', 'uncertain' or 'unfavorable'
factor_of(recommendation) ==
    IF recommendation = "buy" THEN "favorable"
    ELSE IF recommendation = "neutral" THEN "uncertain"
    ELSE "unfavorable"

\* the dictionary returned where the body raises
timing_error_result == [recommendation |-> "uncertain", confidence |-> 50, error |-> "raised"]

\* the body raises on a list that holds something other than an indicator
\* and on a location that is not a string; the price forecast is carried by
\* its number of points and the ROI estimate unrounded; locals holds the
\* values the adjustments were made from
predict_investment_timing(location, property_type, investment_goal, timeframe, interest_rates, inflation_data, budget, roi_expectation, jitter) ==
    LET interest_df == indicators_to_dataframe(interest_rates)
        inflation_df == indicators_to_dataframe(inflation_data)
    IN  IF interest_df = None \/ inflation_df = None \/ "text" \notin DOMAIN location
        THEN timing_error_result
        ELSE
        LET interest_trend == trend_of(The(interest_df))
            inflation_trend == trend_of(The(inflation_df))
            base == decision_table(investment_goal, interest_trend, inflation_trend)
            current_price == estimate_base_price(location.text, property_type)
                             * average_size(property_type)
            roi_estimate == calculate_expected_roi(location.text, property_type,
                                                   investment_goal, timeframe, jitter)
            adjusted == timing_adjustments(base, budget, roi_expectation,
                                           current_price, roi_estimate)
        IN  [recommendation |-> adjusted.recommendation,
             confidence |-> round2(adjusted.confidence, 100),
             optimal_time |-> adjusted.optimal_time,
             price_forecast |-> Max2(0, Min2(timeframe * 12, 24)),
             roi_estimate |-> roi_estimate,
             factors |-> [interest_rates |-> interest_trend,
                          inflation |-> inflation_trend,
                          market_direction |-> factor_of(adjusted.recommendation)],
             locals |-> [base |-> base, current_price |-> current_price]]

\* POST /api/investment-timing/recommend.  A missing field and a timeframe
\* of 0 are answered 400; a budget or an ROI expectation of 0 is passed on
\* as None.  save_investment_recommendation reads attributes of the
\* dictionary it is given, fails inside its own try and stores nothing.
get_investment_recommendation(data, interest_rates, inflation_data, jitter) ==
    IF data.location = None \/ data.property_type = None \/ data.investment_goal = None
       \/ data.timeframe = None \/ data.timeframe = Some(0)
    THEN error_response(400, "Missing required parameters")
    ELSE [status |-> "success",
          data |-> predict_investment_timing(
                       The(data.location), The(data.property_type),
                       The(data.investment_goal), The(data.timeframe),
                       interest_rates, inflation_data,
                       IF data.budget = Some(0) THEN None ELSE data.budget,
                       IF data.roi_expectation = Some(0) THEN None ELSE data.roi_expectation,
                       jitter)]

\* recommendation.recommendation, .confidence, ... where recommendation is
\* the dictionary predict_investment_timing returned: a dictionary has no
\* such attribute and the access raises AttributeError
dict_attribute(d, name) == None

\* save_investment_recommendation: the table afterwards.  Without a
\* connection nothing is done; an exception raised while the parameters of
\* the INSERT are put together is caught, the transaction rolled back.
save_investment_recommendation(rows, location, property_type, investment_goal, timeframe, recommendation, db_up) ==
    IF ~db_up THEN rows
    ELSE
    LET columns == {"recommendation", "confidence", "price_forecast",
                    "optimal_time", "roi_estimate"}
        values == [c \in columns |-> dict_attribute(recommendation, c)]
    IN  IF \E c \in columns : values[c] = None
        THEN rows
        ELSE Append(rows, [location |-> location,
                           property_type |-> property_type,
                           recommendation |-> The(values["recommendation"]),
                           confidence |-> The(values["confidence"]),
                           price_forecast |-> The(values["price_forecast"]),
                           optimal_time |-> The(values["optimal_time"]),
                           roi_estimate |-> The(values["roi_estimate"])])

\* the table after POST /api/investment-timing/recommend has answered: the
\* save is reached only where the answer is the success
recommendation_saved(rows, data, answer, db_up) ==
    IF answer.status = "success"
    THEN save_investment_recommendation(rows, The(data.location), The(data.property_type),
                                        The(data.investment_goal), The(data.timeframe),
                                        answer.data, db_up)
    ELSE rows

\* the score of the interest rates: the last of the list against the first,
\* as the list is handed over; a comparison with NaN is false
momentum_interest_score(interest_rates) ==
    IF Len(interest_rates) > 1
    THEN LET first_rate == interest_rates[1].value
             last_rate == interest_rates[Len(interest_rates)].value
         IN  IF first_rate = None \/ last_rate = None THEN 5
             ELSE IF The(last_rate) < The(first_rate) THEN 20
             ELSE IF The(last_rate) > The(first_rate) THEN -10
             ELSE 5
    ELSE 0

\* the score of the inflation: the last of the list against 4.0 and against
\* the first
momentum_inflation_score(inflation_data) ==
    IF Len(inflation_data) > 1
    THEN LET first_inflation == inflation_data[1].value
             last_inflation == inflation_data[Len(inflation_data)].value
         IN  IF last_inflation = None THEN 0
             ELSE IF The(last_inflation) > 400 THEN -5
             ELSE IF first_inflation # None /\ The(last_inflation) > The(first_inflation)
             THEN 5
             ELSE 0
    ELSE 0

\* random.randint(-5, 5) at its ends and in the middle
MomentumNoise == {-5, 0, 5}

\* the score without its normalisation to the -100..100 scale
calculate_momentum_score_unclamped(interest_rates, inflation_data, location, property_type, noise) ==
    LET location_factor == IF city_of(location) \in hot_markets THEN 10 ELSE 0
        type_factor == CASE property_type = "residential" -> 5
                         [] property_type = "commercial"  -> 0
                         [] OTHER                         -> -5
        total_score == momentum_interest_score(interest_rates)
                       + momentum_inflation_score(inflation_data)
                       + location_factor + type_factor + noise
    IN  total_score * 3

calculate_momentum_score(interest_rates, inflation_data, location, property_type, noise) ==
    LET location_factor == IF city_of(location) \in hot_markets THEN 10 ELSE 0
        type_factor == CASE property_type = "residential" -> 5
                         [] property_type = "commercial"  -> 0
                         [] OTHER                         -> -5
        total_score == momentum_interest_score(interest_rates)
                       + momentum_inflation_score(inflation_data)
                       + location_factor + type_factor + noise
    IN  Max2(-100, Min2(100, total_score * 3))

determine_investment_action(momentum_score) ==
    IF momentum_score > 60 THEN [action |-> "Strong Buy", confidence |-> "High"]
    ELSE IF momentum_score > 20 THEN [action |-> "Buy", confidence |-> "Medium"]
    ELSE IF momentum_score > -20 THEN [action |-> "Hold", confidence |-> "Medium"]
    ELSE IF momentum_score > -60 THEN [action |-> "Sell", confidence |-> "Medium"]
    ELSE [action |-> "Strong Sell", confidence |-> "High"]

\* GET /api/investment-timing/momentum; the period only sets the dates asked
\* of the collaborators, whose lists are given; the last three points of
\* each list are returned with the score
get_price_momentum(data, interest_rates, inflation_data, noise) ==
    IF data.location = None
    THEN error_response(400, "Missing required parameter: location")
    ELSE LET property_type == IF data.property_type = None THEN "residential"
                              ELSE The(data.property_type)
             momentum_score == calculate_momentum_score(interest_rates, inflation_data,
                                                        The(data.location).text,
                                                        property_type, noise)
         IN  [status |-> "success",
              data |-> [location |-> The(data.location).text,
                        property_type |-> property_type,
                        momentum_score |-> momentum_score,
                        recommendation |-> determine_investment_action(momentum_score),
                        indicators |->
                            [interest_rates |-> tail(interest_rates,
                                                     Min2(3, Len(interest_rates))),
                             inflation |-> tail(inflation_data,
                                                Min2(3, Len(inflation_data)))]]]

----------------------------------------------------------------------------
(* The timing recommendation and the momentum endpoint, applied once to a  *)
(* request drawn by the initial state: the recommendation through its      *)
(* endpoint, with the indicator lists the collaborators hand over, and     *)
(* called directly.  The arguments of the direct call are kept in the      *)
(* shape of the fields of the JSON body.                                   *)

Budgets == {None, Some(0), Some(250000), Some(400000), Some(5000000)}
RoiExpectations == {None, Some(0), Some(5), Some(60)}

\* falling, rising, flat, empty, and rising but handed over newest first
TimingIndicatorLists ==
    {indicators_of(ramp(500, -50, RampLen), FALSE), indicators_of(ramp(100, 50, RampLen), FALSE),
     indicators_of(ramp(200, 0, RampLen), FALSE), <<>>,
     indicators_of(ramp(100, 50, RampLen), TRUE)}

MalformedIndicatorLists == {<<Indicator(1, Some(200)), NotAnIndicator>>}

recommend_request(l, c, g, t, b, e, i, f) ==
    [op |-> "recommend",
     location |-> CASE l = "missing" -> None
                    [] l = "string"  -> Some(json_string(c[1]))
                    [] l = "number"  -> Some(json_number),
     property_type |-> Some(c[2]), investment_goal |-> g, timeframe |-> t,
     budget |-> b, roi_expectation |-> e, interest_rates |-> i, inflation_data |-> f]

\* complete requests, and requests with a field missing, a timeframe of 0
\* or a location that is a number
RecommendRequests ==
    {recommend_request("string", c, Some(g), Some(t), b, e, i, f) :
        c \in GrowthCases, g \in Goals, t \in 1..MaxTimeframe,
        b \in Budgets, e \in RoiExpectations,
        i \in TimingIndicatorLists, f \in TimingIndicatorLists}
    \cup {recommend_request(l, <<"Phoenix, AZ", "residential">>, g, t, Some(250000), None,
                            i, <<>>) :
            l \in {"missing", "string", "number"}, g \in {None, Some("flip")},
            t \in {None, Some(0), Some(1)}, i \in TimingIndicatorLists}

PredictCalls ==
    {[op |-> "predict_investment_timing", location |-> Some(json_string(c[1])),
      property_type |-> Some(c[2]), investment_goal |-> Some(g), timeframe |-> Some(t),
      budget |-> b,
      roi_expectation |-> e, interest_rates |-> i, inflation_data |-> f] :
        c \in GrowthCases, g \in Goals, t \in 1..MaxTimeframe,
        b \in {None, Some(250000)}, e \in {None, Some(60)},
        i \in TimingIndicatorLists \cup MalformedIndicatorLists,
        f \in TimingIndicatorLists \cup MalformedIndicatorLists}

\* the lists of the momentum endpoint: those above, and the inflation rising
\* to 4.5 handed over oldest first and newest first
MomentumIndicatorLists ==
    TimingIndicatorLists
    \cup {indicators_of(ramp(350, 50, RampLen), FALSE), indicators_of(ramp(350, 50, RampLen), TRUE),
          indicators_of(ramp(500, -50, RampLen), TRUE)}

MomentumRequests ==
    [op : {"momentum"},
     location : {None, Some(json_string("Phoenix, AZ")), Some(json_string("Austin, TX"))},
     property_type : {None, Some("commercial"), Some("land")},
     interest_rates : MomentumIndicatorLists, inflation_data : MomentumIndicatorLists]

InitTiming ==
    /\ location_scores = <<>>
    /\ roi_calculations = <<>>
    /\ investment_recommendations = <<>>
    /\ request \in RecommendRequests \cup PredictCalls \cup MomentumRequests
    /\ response = pending

RecommendCall ==
    /\ request.op = "recommend" /\ response = pending
    /\ \E jitter \in RoiJitters, db_up \in BOOLEAN :
        LET answer == get_investment_recommendation(request, request.interest_rates,
                                                    request.inflation_data, jitter)
        IN  /\ response' = answer
            /\ investment_recommendations' =
                   recommendation_saved(investment_recommendations, request, answer, db_up)
    /\ UNCHANGED <<request, location_scores, roi_calculations>>

PredictCall ==
    /\ request.op = "predict_investment_timing" /\ response = pending
    /\ \E jitter \in RoiJitters :
        response' = value_response(
            predict_investment_timing(The(request.location), The(request.property_type),
                                      The(request.investment_goal), The(request.timeframe),
                                      request.interest_rates, request.inflation_data,
                                      request.budget, request.roi_expectation, jitter))
    /\ UNCHANGED <<request, location_scores, roi_calculations, investment_recommendations>>

MomentumCall ==
    /\ request.op = "momentum" /\ response = pending
    /\ \E noise \in MomentumNoise :
        response' = get_price_momentum(request, request.interest_rates,
                                       request.inflation_data, noise)
    /\ UNCHANGED <<request, location_scores, roi_calculations, investment_recommendations>>

NextTiming == RecommendCall \/ PredictCall \/ MomentumCall

SpecTiming == InitTiming /\ [][NextTiming]_vars

----------------------------------------------------------------------------
(* Properties of the timing recommendation.                                *)

\* the operation has returned a result dictionary
TimingResultReturned ==
    \/ request.op = "recommend" /\ response.status = "success"
    \/ request.op = "predict_investment_timing" /\ response.status = "value"

\* the result is that of the body, not of its exception handler
TimingBodyCompleted == TimingResultReturned /\ "locals" \in DOMAIN response.data

\* a budget above 0 was supplied and is below the estimated price
BudgetShort ==
    /\ request.budget # None
    /\ The(request.budget) > 0
    /\ The(request.budget) < response.data.locals.current_price

\* an ROI expectation was supplied and the estimated ROI is below it
RoiShort ==
    /\ request.roi_expectation # None
    /\ response.data.roi_estimate[1]
         < The(request.roi_expectation) * response.data.roi_estimate[2]

\* round((price - budget) / (0.2 * budget)) months
DocumentedMonthsToSave ==
    LET price == response.data.locals.current_price
        budget == The(request.budget)
    IN  CHOOSE k \in 0..(5 * price) :
            /\ 2 * Abs(5 * (price - budget) - k * budget) <= budget
            /\ (2 * Abs(5 * (price - budget) - k * budget) = budget => k % 2 = 0)

\* C11 as stated: whenever a budget is supplied and below the estimated
\* price, the recommendation returned is save and the optimal time is
\* round((price - budget) / (0.2 * budget)) months, for every goal and every
\* combination of trends.
C11_BudgetShortGivesSave ==
    (TimingBodyCompleted /\ BudgetShort)
    => /\ response.data.recommendation = "save"
       /\ response.data.optimal_time = <<DocumentedMonthsToSave>>

\* C12: the budget adjustment is made before the ROI adjustment.  A table
\* result of buy with an ROI shortfall and no budget shortfall becomes
\* research alternatives with the confidence 0.1 lower; with a budget
\* shortfall it is save with the confidence of the table, ROI shortfall or
\* not; a table result other than buy is returned with its recommendation
\* and confidence unchanged.
C12_BudgetBeforeRoi ==
    TimingBodyCompleted =>
        LET base == response.data.locals.base
            result == response.data
        IN  /\ (base.recommendation = "buy" /\ RoiShort /\ ~BudgetShort)
                 => /\ result.recommendation = "research alternatives"
                    /\ result.confidence = base.confidence - 10
            /\ (base.recommendation = "buy" /\ BudgetShort)
                 => /\ result.recommendation = "save"
                    /\ result.confidence = base.confidence
            /\ base.recommendation # "buy"
                 => /\ result.recommendation = base.recommendation
                    /\ result.confidence = base.confidence

\* a buy of the table came back as save although the ROI was short as well
C12_Witness ==
    /\ TimingBodyCompleted
    /\ response.data.locals.base.recommendation = "buy"
    /\ BudgetShort /\ RoiShort
    /\ response.data.recommendation = "save"
    /\ response.data.confidence = response.data.locals.base.confidence

\* C13 as stated: every result of the timing recommendation, also the one
\* returned when an internal error occurs, carries a recommendation among
\* buy, wait, neutral, hold, save and research alternatives and a
\* confidence within [0, 1].
C13_RecommendationInEnum ==
    TimingResultReturned
    => /\ response.data.recommendation
            \in {"buy", "wait", "neutral", "hold", "save", "research alternatives"}
       /\ response.data.confidence \in 0..100

----------------------------------------------------------------------------
(* Construction planning.  Money is in cents and areas in hundreds of      *)
(* square feet, durations in tenths of a month.  A date is its number of   *)
(* days after today; now is today at midnight or later in the day.         *)

\* the basic, standard and premium base costs per square foot
base_costs ==
    [t \in {"residential"} |-> <<125, 175, 300>>]
    @@ [t \in {"commercial"} |-> <<150, 200, 350>>]
    @@ [t \in {"industrial"} |-> <<100, 150, 250>>]

\* the cost multipliers of the cities listed, in hundredths
location_factors ==
    [c \in {"New York"} |-> 150] @@ [c \in {"Los Angeles"} |-> 135]
    @@ [c \in {"Chicago"} |-> 120] @@ [c \in {"Houston", "Dallas"} |-> 95]
    @@ [c \in {"Phoenix", "San Antonio"} |-> 90] @@ [c \in {"Philadelphia"} |-> 115]
    @@ [c \in {"San Diego"} |-> 125] @@ [c \in {"San Francisco"} |-> 160]

\* dollars per square foot, in hundredths
estimate_construction_base_cost(location, property_type, quality_level) ==
    LET level == CASE quality_level = "basic"    -> 1
                   [] quality_level = "standard" -> 2
                   [] quality_level = "premium"  -> 3
                   [] OTHER                      -> 0
        base_cost == IF property_type \in DOMAIN base_costs /\ level # 0
                     THEN base_costs[property_type][level]
                     ELSE 175
        location_factor == IF city_of(location) \in DOMAIN location_factors
                           THEN location_factors[city_of(location)]
                           ELSE 100
    IN  base_cost * location_factor

\* total_cost = basic_cost * (1 + 0.18 + 0.08) for one story; the breakdown
\* and the material costs are not carried
predict_construction_costs(location, property_type, area, quality_level) ==
    LET per_sqft == estimate_construction_base_cost(location, property_type, quality_level)
    IN  [total_cost |-> per_sqft * area * 126,
         cost_per_sqft |-> <<per_sqft * 126, 10000>>,
         confidence |-> 85]

\* round(base_time + max(1, 0.2 * base_time), 1), in tenths of a month; the
\* base time is area / 1000 months, half as long again for commercial and a
\* fifth for industrial
estimate_completion_time(area, property_type) ==
    LET base_time == CASE property_type = "commercial" -> <<15 * area, 10>>
                       [] property_type = "industrial" -> <<12 * area, 10>>
                       [] OTHER                        -> <<area, 1>>
        buffer == IF base_time[1] > 5 * 10 * base_time[2]
                  THEN <<base_time[1], 5 * base_time[2]>>
                  ELSE <<10, 1>>
    IN  round0(base_time[1] * buffer[2] + buffer[1] * base_time[2],
               base_time[2] * buffer[2])

\* timedelta(days=30 * months), in days
days_of(tenths) == 3 * tenths

\* the candidate windows of a forecast: three months from month i, scored
\* by the sum of their favorable days (three times the average)
weather_windows(forecast) ==
    [k \in 1..(Len(forecast) - 3) |->
        [start_month |-> k - 1,
         score |-> forecast[k] + forecast[k + 1] + forecast[k + 2],
         start_date |-> 30 * (k - 1)]]

\* the windows in ascending order of score
RECURSIVE sort_by_score_ascending(_)
sort_by_score_ascending(windows) ==
    IF windows = <<>> THEN <<>>
    ELSE LET rest == sort_by_score_ascending(SubSeq(windows, 1, Len(windows) - 1))
             last == windows[Len(windows)]
             n == Cardinality({i \in 1..Len(rest) : rest[i].score <= last.score})
         IN  SubSeq(rest, 1, n) \o <<last>> \o SubSeq(rest, n + 1, Len(rest))

\* sort(key=score, reverse=True): descending, windows of equal score in the
\* order they had
RECURSIVE sort_by_score(_)
sort_by_score(windows) ==
    IF windows = <<>> THEN <<>>
    ELSE LET rest == sort_by_score(SubSeq(windows, 1, Len(windows) - 1))
             last == windows[Len(windows)]
             n == Cardinality({i \in 1..Len(rest) : rest[i].score >= last.score})
         IN  SubSeq(rest, 1, n) \o <<last>> \o SubSeq(rest, n + 1, Len(rest))

\* a timeline key is None where it is missing and otherwise holds its
\* string: Some(day) for a date, None for a string that is no date
timeline_constrains(timeline) ==
    timeline.earliest_start # None /\ timeline.latest_completion # None

\* datetime.strptime(text, '%Y-%m-%d') of the string of a key
strptime(key) == The(The(key))

\* the windows kept by the timeline, which are those starting no earlier
\* than earliest_start and completing, as a residential building would, no
\* later than latest_completion
filter_by_timeline(windows, area, timeline) ==
    SelectSeq(windows,
              LAMBDA w : /\ w.start_date >= strptime(timeline.earliest_start)
                         /\ w.start_date + days_of(estimate_completion_time(area, "residential"))
                              <= strptime(timeline.latest_completion))

\* how many of the best windows the choice is made from
choice_size(flexibility, n) ==
    CASE flexibility = "low"    -> 1
      [] flexibility = "medium" -> IF n >= 3 THEN 3 ELSE 1
      [] OTHER                  -> IF n >= 5 THEN 5 ELSE 1

\* the material purchase date left wherever it falls
material_purchase_unclamped(start_date, days_before, after_midnight) ==
    start_date - days_before

\* the start date less 30 to 60 days, or now + 15 days where that is before
\* now
material_purchase(start_date, days_before, after_midnight) ==
    IF start_date - days_before < 0 \/ (start_date - days_before = 0 /\ after_midnight)
    THEN 15
    ELSE start_date - days_before

\* the random draws of one call: which of the best windows, how many days
\* before the start the materials are bought, the confidence
TimingDraws == [pick : {1, 3, 5}, days_before : {30, 45, 60}, confidence : {75, 95}]

\* None where a date of the timeline cannot be parsed, which raises
get_optimal_start_timing(forecast, area, timeline, flexibility, after_midnight, draw) ==
    LET best_weather_scores == sort_by_score(weather_windows(forecast))
    IN  IF timeline_constrains(timeline)
           /\ (The(timeline.earliest_start) = None \/ The(timeline.latest_completion) = None)
        THEN None
        ELSE
        LET filtered_scores == IF timeline_constrains(timeline)
                               THEN filter_by_timeline(best_weather_scores, area, timeline)
                               ELSE <<>>
            candidates == IF filtered_scores # <<>> THEN filtered_scores
                          ELSE best_weather_scores
            size == choice_size(flexibility, Len(candidates))
            selected_timing == candidates[IF draw.pick <= size THEN draw.pick ELSE 1]
        IN  Some([start_date |-> selected_timing.start_date,
                  start_month_index |-> selected_timing.start_month,
                  weather_score |-> selected_timing.score,
                  confidence |-> draw.confidence,
                  material_purchase_time |->
                      material_purchase(selected_timing.start_date, draw.days_before,
                                        after_midnight)])

\* cost_estimate['total_cost'] > float(budget)
budget_insufficient_or_equal(total_cost, budget) == total_cost >= budget

budget_insufficient(total_cost, budget) == total_cost > budget

\* POST /api/construction-planning/optimal-timing.  The construction
\* windows and the weather considerations of the plan are not carried.
get_optimal_construction_timing(data, forecast, after_midnight, draw) ==
    IF data.location = None \/ data.property_type = None \/ data.area_sqft = None
       \/ data.area_sqft = Some(0) \/ data.budget = None \/ data.budget = Some(0)
    THEN error_response(400, "Missing required parameters")
    ELSE
    LET location == The(data.location)
        property_type == The(data.property_type)
        area == The(data.area_sqft)
        budget == The(data.budget)
        flexibility == IF data.flexibility = None THEN "medium" ELSE The(data.flexibility)
        cost_estimate == predict_construction_costs(location, property_type, area, "standard")
        optimal_date == get_optimal_start_timing(forecast, area, data.timeline,
                                                 flexibility, after_midnight, draw)
        completion_time_months == estimate_completion_time(area, property_type)
    IN  IF budget_insufficient(cost_estimate.total_cost, budget)
        THEN [status |-> "warning",
              message |-> "Budget is insufficient for the planned construction",
              data |-> [estimated_cost |-> cost_estimate.total_cost,
                        budget |-> budget,
                        shortfall |-> cost_estimate.total_cost - budget,
                        recommendations |-> 4]]
        ELSE IF optimal_date = None
        THEN error_response(500, "Failed to determine optimal construction timing")
        ELSE [status |-> "success",
              data |-> [optimal_timing |->
                            [start_date |-> The(optimal_date).start_date,
                             estimated_completion |->
                                 The(optimal_date).start_date + days_of(completion_time_months),
                             duration_months |-> completion_time_months,
                             confidence |-> The(optimal_date).confidence],
                        cost_summary |->
                            [total_cost |-> cost_estimate.total_cost,
                             cost_per_sqft |-> cost_estimate.cost_per_sqft,
                             budget |-> budget,
                             buffer |-> budget - cost_estimate.total_cost],
                        material_recommendations |->
                            [best_purchase_time |-> The(optimal_date).material_purchase_time]]]

----------------------------------------------------------------------------
(* The optimal-timing endpoint, applied once to a request drawn by the     *)
(* initial state together with the forecast and the time of the day.       *)

\* the favorable days of the twelve months of a forecast: rising to a peak
\* in the middle, best at once and then all alike, and the best months last
Forecasts ==
    {<<10, 12, 16, 20, 24, 26, 27, 25, 20, 17, 12, 9>>,
     <<28, 27, 20, 20, 20, 20, 20, 20, 20, 20, 20, 20>>,
     <<9, 10, 12, 14, 16, 18, 20, 22, 24, 26, 27, 28>>}

\* hundreds of square feet
Areas == {20, 50}

\* in cents: a cent less than the standard cost of 2000 square feet of
\* residential building in Phoenix, that cost, and an amount far above
ConstructionBudgets == {39689999, 39690000, 500000000}

\* no timeline, one date only, a date that cannot be parsed, and ranges
\* that hold several windows, one window or none
Timelines ==
    {[earliest_start |-> None, latest_completion |-> None],
     [earliest_start |-> Some(Some(100)), latest_completion |-> None],
     [earliest_start |-> Some(None), latest_completion |-> Some(Some(400))],
     [earliest_start |-> Some(Some(0)), latest_completion |-> Some(Some(400))],
     [earliest_start |-> Some(Some(100)), latest_completion |-> Some(Some(300))],
     [earliest_start |-> Some(Some(100)), latest_completion |-> Some(Some(200))],
     [earliest_start |-> Some(Some(400)), latest_completion |-> Some(Some(100))]}

ConstructionRequests ==
    {[op |-> "optimal_timing", location |-> Some("Phoenix, AZ"), property_type |-> Some(t),
      area_sqft |-> Some(a), budget |-> Some(b), timeline |-> tl, flexibility |-> fx,
      forecast |-> f, after_midnight |-> am] :
        t \in {"residential", "commercial"}, a \in Areas,
        b \in ConstructionBudgets, tl \in Timelines,
        fx \in {None, Some("low"), Some("high")},
        f \in Forecasts, am \in BOOLEAN}
    \cup {[op |-> "optimal_timing", location |-> l, property_type |-> Some("industrial"),
           area_sqft |-> a, budget |-> b,
           timeline |-> [earliest_start |-> None, latest_completion |-> None],
           flexibility |-> Some("medium"), forecast |-> <<20, 20, 20, 20, 20, 20, 20, 20, 20, 20, 20, 20>>,
           after_midnight |-> TRUE] :
            l \in {None, Some("Dallas, TX")}, a \in {None, Some(0), Some(20)},
            b \in {None, Some(0), Some(500000000)}}

InitConstruction ==
    /\ location_scores = <<>>
    /\ roi_calculations = <<>>
    /\ investment_recommendations = <<>>
    /\ request \in ConstructionRequests
    /\ response = pending

OptimalTimingCall ==
    /\ request.op = "optimal_timing" /\ response = pending
    /\ \E draw \in TimingDraws :
        response' = get_optimal_construction_timing(request, request.forecast,
                                                    request.after_midnight, draw)
    /\ UNCHANGED <<request, location_scores, roi_calculations, investment_recommendations>>

NextConstruction == OptimalTimingCall

SpecConstruction == InitConstruction /\ [][NextConstruction]_vars

----------------------------------------------------------------------------
(* Properties of the optimal-timing endpoint.                              *)

\* the endpoint has answered with a timing plan
PlanReturned == request.op = "optimal_timing" /\ response.status = "success"

\* the request carries both dates of the timeline, each a date
TimelineGiven ==
    /\ request.timeline.earliest_start # None
    /\ request.timeline.latest_completion # None
    /\ The(request.timeline.earliest_start) # None
    /\ The(request.timeline.latest_completion) # None

\* C14 as stated: when the request supplies both earliest_start and
\* latest_completion, the start date returned is not before earliest_start
\* and the estimated completion reported for it is not after
\* latest_completion.
C14_PlanWithinTimeline ==
    (PlanReturned /\ TimelineGiven)
    => /\ response.data.optimal_timing.start_date
            >= The(The(request.timeline.earliest_start))
       /\ response.data.optimal_timing.estimated_completion
            <= The(The(request.timeline.latest_completion))

\* the three-month windows of the forecast of the request
AllWindows ==
    {[start_date |-> 30 * i,
      score |-> request.forecast[i + 1] + request.forecast[i + 2] + request.forecast[i + 3]] :
        i \in 0..8}

\* the windows the timeline keeps: all of them without a timeline, and also
\* where the range of the timeline holds none
CandidateWindows ==
    LET within == {w \in AllWindows :
                     /\ w.start_date >= The(The(request.timeline.earliest_start))
                     /\ w.start_date
                          + 3 * estimate_completion_time(The(request.area_sqft), "residential")
                          <= The(The(request.timeline.latest_completion))}
    IN  IF TimelineGiven /\ within # {} THEN within ELSE AllWindows

\* k of the flexibility of the request, medium where it names none
TopK ==
    CASE request.flexibility = Some("low")  -> 1
      [] request.flexibility = Some("high") -> 5
      [] OTHER                              -> 3

\* the candidate windows that score above the window starting at a date
BetterThan(start_date) ==
    {w \in CandidateWindows :
        \E v \in CandidateWindows : v.start_date = start_date /\ w.score > v.score}

BeforeNow(day) == day < 0 \/ (day = 0 /\ request.after_midnight)

\* C16: the material purchase date is the start date less d days for a d in
\* 30..60 for which that is not before now, or now + 15 days for a d for
\* which it is; it is never before now.
C16_MaterialPurchaseDate ==
    PlanReturned =>
        LET start_date == response.data.optimal_timing.start_date
            purchase == response.data.material_recommendations.best_purchase_time
        IN  /\ \E d \in 30..60 :
                 IF BeforeNow(start_date - d) THEN purchase = 15
                 ELSE purchase = start_date - d
            /\ ~BeforeNow(purchase)

\* the start is today, so that the materials are to be bought in 15 days
C16_Witness ==
    /\ PlanReturned
    /\ response.data.optimal_timing.start_date = 0
    /\ response.data.material_recommendations.best_purchase_time = 15

\* the standard-quality cost of the request, in cents
StandardCost ==
    predict_construction_costs(The(request.location), The(request.property_type),
                               The(request.area_sqft), "standard").total_cost

\* all required fields are there and the dates of the timeline are dates
WellFormedPlanRequest ==
    /\ request.op = "optimal_timing" /\ response # pending
    /\ request.location # None /\ request.property_type # None
    /\ request.area_sqft \notin {None, Some(0)} /\ request.budget \notin {None, Some(0)}
    /\ (request.timeline.earliest_start # None /\ request.timeline.latest_completion # None)
         => TimelineGiven

\* C17: where the standard-quality cost exceeds the budget the answer is a
\* warning with shortfall = cost - budget > 0 and suggestions and without a
\* timing plan; where the cost is at most the budget it is a timing plan
\* whose buffer budget - cost is not negative.
C17_BudgetGate ==
    WellFormedPlanRequest =>
        IF StandardCost > The(request.budget)
        THEN /\ response.status = "warning"
             /\ response.data.shortfall = StandardCost - The(request.budget)
             /\ response.data.shortfall > 0
             /\ response.data.recommendations > 0
             /\ "optimal_timing" \notin DOMAIN response.data
        ELSE /\ response.status = "success"
             /\ "optimal_timing" \in DOMAIN response.data
             /\ response.data.cost_summary.buffer = The(request.budget) - StandardCost
             /\ response.data.cost_summary.buffer >= 0

\* the budget is exactly the cost: a plan with a buffer of 0
C17_Witness ==
    /\ WellFormedPlanRequest
    /\ StandardCost = The(request.budget)
    /\ response.status = "success"
    /\ response.data.cost_summary.buffer = 0

----------------------------------------------------------------------------
(* The heatmap endpoint, applied once to a request drawn by the initial    *)
(* state.                                                                  *)

\* request.args.get('radius', 5000) passed to int(): the default, the number
\* written by the text, or None for a text that is no number, which raises
int_heatmap_radius(arg) == IF arg = None THEN Some(5000) ELSE The(arg)

\* min(20, radius // 500)
grid_size(radius) == Min2(20, radius \div 500)

\* the points of the grid loop, or None where the loop raises.  The module
\* imports neither math nor binds it at module level (only haversine_distance
\* imports it, locally), so the longitude of the first grid node raises
\* NameError; range(-grid_size, grid_size + 1) is empty for a negative
\* grid_size, and then no node is visited
heatmap_points(size) == IF size < 0 THEN Some(<<>>) ELSE None

\* GET /api/location-intelligence/heatmap
get_heatmap_data(center, radius_arg, heatmap_type) ==
    IF int_heatmap_radius(radius_arg) = None
    THEN error_response(500, "Failed to generate heatmap data")
    ELSE IF center = None \/ center = Some("")
    THEN error_response(400, "Missing required parameter: center")
    ELSE IF get_geocode(The(center)) = None
    THEN error_response(400, "Failed to geocode the center point")
    ELSE
    LET radius == The(int_heatmap_radius(radius_arg))
    IN  IF grid_size(radius) = 0 \/ heatmap_points(grid_size(radius)) = None
        THEN error_response(500, "Failed to generate heatmap data")
        ELSE [status |-> "success",
              data |-> [radius |-> radius, type |-> heatmap_type,
                        points |-> The(heatmap_points(grid_size(radius)))]]

\* radius texts: none, texts of numbers in metres, and a text that is no
\* number
HeatmapRadiusArgs ==
    {None, Some(None)}
    \cup {Some(Some(r)) : r \in {-500, -1, 0, 1, 499, 500, 1000, 5000, 10000, 20000}}

HeatmapTypes == {"all", "schools", "hospitals", "transport", "crime", "green", "noise"}

HeatmapRequests ==
    [op : {"heatmap"}, center : LocationArgs, radius : HeatmapRadiusArgs, type : HeatmapTypes]

InitHeatmap ==
    /\ location_scores = <<>>
    /\ roi_calculations = <<>>
    /\ investment_recommendations = <<>>
    /\ request \in HeatmapRequests
    /\ response = pending

HeatmapCall ==
    /\ request.op = "heatmap" /\ response = pending
    /\ response' = get_heatmap_data(request.center, request.radius, request.type)
    /\ UNCHANGED <<request, location_scores, roi_calculations, investment_recommendations>>

NextHeatmap == HeatmapCall

SpecHeatmap == InitHeatmap /\ [][NextHeatmap]_vars

----------------------------------------------------------------------------
(* Properties of the heatmap endpoint.                                     *)

\* the request names a centre and its radius, if any, is the text of a number
HeatmapRequestValid ==
    /\ request.op = "heatmap" /\ response # pending
    /\ request.center \notin {None, Some("")}
    /\ int_heatmap_radius(request.radius) # None

\* C18 as stated: for every geocodable centre and every radius the heatmap
\* completes with a success result whose points are nodes of the
\* (2g+1) x (2g+1) grid, g = min(20, radius div 500), each with a weight
\* score/100 within [0, 1].
C18_HeatmapSucceeds ==
    HeatmapRequestValid
    => /\ response.status = "success"
       /\ LET g == Min2(20, The(int_heatmap_radius(request.radius)) \div 500)
          IN  /\ Len(response.data.points) <= (2 * g + 1) * (2 * g + 1)
              /\ \A i \in 1..Len(response.data.points) :
                    response.data.points[i].weight \in 0..100

----------------------------------------------------------------------------
(* Properties of the validation of the investment goal and of the order    *)
(* of the series.                                                          *)

\* C19 as stated: an ROI request whose investment_goal is present but is
\* none of flip, rent and hold is answered with an input-validation error
\* and is never evaluated with a strategy chosen for it.
C19_UnknownGoalRejected ==
    ((TimingAnswered \/ CalculatorAnswered)
     /\ request.investment_goal \notin {"flip", "rent", "hold"})
    => (response.status = "error" /\ response.code = 400)

\* the indicators of a list in ascending order of their dates
InDateOrder(indicators) ==
    [i \in 1..Len(indicators) |->
        CHOOSE x \in {indicators[k] : k \in 1..Len(indicators)} : x.date = i]

\* the momentum endpoint has answered with a score
MomentumScored == request.op = "momentum" /\ response.status = "success"

\* C20 as stated: the trend classification of the timing engine and the
\* first-versus-last comparison of the momentum score work on the points in
\* ascending order of their timestamps: the result for a list is the result
\* for the same points handed over oldest first.
C20_ResultOfDateOrder ==
    /\ TimingBodyCompleted
         => /\ response.data.factors.interest_rates
                 = trend_of(InDateOrder(request.interest_rates))
            /\ response.data.factors.inflation
                 = trend_of(InDateOrder(request.inflation_data))
    /\ MomentumScored
         => \E noise \in -5..5 :
                response.data.momentum_score
                  = calculate_momentum_score(InDateOrder(request.interest_rates),
                                             InDateOrder(request.inflation_data),
                                             response.data.location,
                                             response.data.property_type, noise)

----------------------------------------------------------------------------
(* Concurrent calls of save_location_score and get_location_score, each on *)
(* a connection of its own (src/services/database.py:359-434).  A call is  *)
(* a sequence of steps: get_db_connection, the one SQL statement, and for  *)
(* a save conn.commit().  An inserted row is visible to other connections  *)
(* from its commit on; its created_at is CURRENT_TIMESTAMP of the INSERT,  *)
(* the start of the saving transaction.  Here request maps each call in    *)
(* flight to its position and locals, response maps it to what it          *)
(* returned, and location_scores holds the committed rows in commit order. *)

Savers == {1, 2}

Lookups == {3, 4}

StoreLocations == {"Phoenix", "Austin"}

\* the score_data a saver hands over, different in every field from the
\* other saver's and from every synthetic record
score_data_of(p) ==
    LocationScore("", 100 * p + 1, 100 * p + 2, 100 * p + 3, 100 * p + 4,
                  100 * p + 5, 100 * p + 6, 100 * p + 7)

\* CURRENT_TIMESTAMP of the next INSERT, and the SERIAL id it draws: one
\* more than the number of INSERTs executed so far
inserts_so_far(calls) ==
    Cardinality({p \in Savers : calls[p].created_at # 0})

\* a row of the table as the INSERT of save_location_score writes it
inserted_row(location, score_data, stamp) ==
    [id |-> stamp, created_at |-> stamp,
     score |-> [score_data EXCEPT !.location = location]]

\* SELECT * FROM location_scores WHERE location = %s
\* ORDER BY created_at DESC LIMIT 1
select_latest(rows, location) ==
    LET hits == {i \in 1..Len(rows) : rows[i].score.location = location}
    IN  IF hits = {} THEN None
        ELSE Some(rows[CHOOSE i \in hits :
                        \A j \in hits : rows[j].created_at <= rows[i].created_at].score)

store_call(op, location, draws) ==
    [op |-> op, pc |-> "start", location |-> location, draws |-> draws, created_at |-> 0]

InitStore ==
    /\ location_scores = <<>>
    /\ roi_calculations = <<>>
    /\ investment_recommendations = <<>>
    /\ \E saved \in [Savers -> StoreLocations], drawn \in [Lookups -> RequestDraws] :
        request = [p \in Savers \cup Lookups |->
                     IF p \in Savers
                     THEN store_call("save_location_score", saved[p],
                                     CHOOSE d \in RequestDraws : TRUE)
                     ELSE store_call("get_location_score", "Phoenix", drawn[p])]
    /\ response = [p \in Savers \cup Lookups |-> pending]

\* conn = get_db_connection() of a save: on None the call returns False
SaveConnect(p) ==
    /\ request[p].pc = "start"
    /\ \E db_up \in BOOLEAN :
        IF db_up
        THEN /\ request' = [request EXCEPT ![p].pc = "connected"]
             /\ UNCHANGED response
        ELSE /\ request' = [request EXCEPT ![p].pc = "done"]
             /\ response' = [response EXCEPT ![p] = value_response("False")]
    /\ UNCHANGED <<location_scores, roi_calculations, investment_recommendations>>

\* cur.execute(INSERT ... RETURNING id) and cur.fetchone()
SaveInsert(p) ==
    /\ request[p].pc = "connected"
    /\ request' = [request EXCEPT ![p].pc = "inserted",
                                  ![p].created_at = inserts_so_far(request) + 1]
    /\ UNCHANGED <<location_scores, roi_calculations, investment_recommendations, response>>

\* conn.commit(), return result[0] and conn.close()
SaveCommit(p) ==
    /\ request[p].pc = "inserted"
    /\ location_scores' =
           Append(location_scores,
                  inserted_row(request[p].location, score_data_of(p),
                               request[p].created_at))
    /\ request' = [request EXCEPT ![p].pc = "done"]
    /\ response' = [response EXCEPT ![p] = value_response(request[p].created_at)]
    /\ UNCHANGED <<roi_calculations, investment_recommendations>>

\* conn = get_db_connection() of a lookup: on None the call returns a
\* synthetic record
LookupConnect(p) ==
    /\ request[p].pc = "start"
    /\ \E db_up \in BOOLEAN :
        IF db_up
        THEN /\ request' = [request EXCEPT ![p].pc = "connected"]
             /\ UNCHANGED response
        ELSE /\ request' = [request EXCEPT ![p].pc = "done"]
             /\ response' =
                    [response EXCEPT ![p] =
                        value_response(generate_sample_location_score(
                                           request[p].location, request[p].draws))]
    /\ UNCHANGED <<location_scores, roi_calculations, investment_recommendations>>

\* cur.execute(SELECT ...), cur.fetchone(), the LocationScore built from
\* the row or the synthetic record, and conn.close()
LookupSelect(p) ==
    /\ request[p].pc = "connected"
    /\ request' = [request EXCEPT ![p].pc = "done"]
    /\ response' =
           [response EXCEPT ![p] =
               LET result == select_latest(location_scores, request[p].location)
               IN  IF result # None THEN value_response(The(result))
                   ELSE value_response(generate_sample_location_score(
                                           request[p].location, request[p].draws))]
    /\ UNCHANGED <<location_scores, roi_calculations, investment_recommendations>>

NextStore ==
    \/ \E p \in Savers : SaveConnect(p)
    \/ \E p \in Savers : SaveInsert(p)
    \/ \E p \in Savers : SaveCommit(p)
    \/ \E p \in Lookups : LookupConnect(p)
    \/ \E p \in Lookups : LookupSelect(p)

SpecStore == InitStore /\ [][NextStore]_vars

----------------------------------------------------------------------------
(* Properties of concurrent saves and lookups.                             *)

\* the records a lookup of Phoenix may hand back whole: what a saver saved
\* there, or a synthetic record
WholeRecords ==
    {[score_data_of(p) EXCEPT !.location = "Phoenix"] : p \in Savers}
    \cup {generate_sample_location_score("Phoenix", d) : d \in RequestDraws}

\* every save has returned, and one of them stored a row for Phoenix
AllSavesCompleted ==
    /\ \A p \in Savers : request[p].pc = "done"
    /\ select_latest(location_scores, "Phoenix") # None

\* the row for Phoenix whose save completed last (rows are in commit order)
CompletedLast ==
    LET hits == {i \in 1..Len(location_scores) :
                    location_scores[i].score.location = "Phoenix"}
    IN  location_scores[CHOOSE i \in hits : \A j \in hits : j <= i].score

\* C21 as stated: under any interleaving of saves and lookups for one
\* location string, a lookup returns a record that is wholly one save's or
\* one synthetic record, and a lookup that reads after every save has
\* completed returns the record of the save that completed last.
C21_LookupReturnsLastCompleted ==
    [][\A p \in Lookups :
          (request[p].pc = "connected" /\ request'[p].pc = "done")
          => /\ response'[p].data \in WholeRecords
             /\ AllSavesCompleted => response'[p].data = CompletedLast]_vars

----------------------------------------------------------------------------
(* Properties of the momentum score and of the action derived from it.     *)

\* the action the documented bands give a score
DocumentedAction(score) ==
    CASE score > 60                  -> "Strong Buy"
      [] 20 < score /\ score <= 60   -> "Buy"
      [] -20 < score /\ score <= 20  -> "Hold"
      [] -60 < score /\ score <= -20 -> "Sell"
      [] score <= -60                -> "Strong Sell"

\* C22: the momentum score lies within -100..100 and the action returned
\* with it is the one of the documented band the score falls in.
C22_MomentumScoreAndAction ==
    MomentumScored =>
        /\ response.data.momentum_score >= -100
        /\ response.data.momentum_score <= 100
        /\ response.data.recommendation.action
               = DocumentedAction(response.data.momentum_score)

\* a sum of 45 scaled to 135 and cut to 100, answered Strong Buy
C22_Witness ==
    /\ MomentumScored
    /\ momentum_interest_score(request.interest_rates) = 20
    /\ momentum_inflation_score(request.inflation_data) = 5
    /\ city_of(The(request.location).text) \in hot_markets
    /\ request.property_type = None
    /\ response.data.momentum_score = 100
    /\ response.data.recommendation.action = "Strong Buy"

\* a score on the edge of a band: -60 is answered Strong Sell
C22_StrongSellAtMinusSixty ==
    /\ MomentumScored
    /\ response.data.momentum_score = -60
    /\ response.data.recommendation.action = "Strong Sell"

----------------------------------------------------------------------------
(* The property price predictor: estimate_base_price and                   *)
(* predict_property_prices of src/MapDataFetcher/services/ml_models.py and *)
(* the predict endpoint of src/routes/property_price.py.  Areas are in     *)
(* hundreds of square feet, multipliers in twentieths, and an unrounded    *)
(* price is counted in eightieths of a dollar.                             *)

\* bedroom_factor and bathroom_factor, in twentieths
bedroom_factor(bedrooms) ==
    IF bedrooms <= 1 THEN 18
    ELSE IF bedrooms = 2 THEN 20
    ELSE IF bedrooms = 3 THEN 22
    ELSE IF bedrooms = 4 THEN 24
    ELSE 25

bathroom_factor(bathrooms) ==
    IF bathrooms <= 1 THEN 19
    ELSE IF bathrooms = 2 THEN 21
    ELSE 22

\* a count that Python takes as true: given and not 0
truthy(count) == count # None /\ count # Some(0)

\* the condition of the residential adjustment:
\* property_type == 'residential' and bedrooms and bathrooms
rooms_given(property_type, bedrooms, bathrooms) ==
    property_type = "residential" /\ truthy(bedrooms) /\ truthy(bathrooms)

\* datetime.now().year
current_year == 2026

\* age_factor, in twentieths
age_factor(year_built) ==
    LET age == current_year - year_built
    IN  IF age <= 2 THEN 24
        ELSE IF age <= 10 THEN 22
        ELSE IF age <= 20 THEN 20
        ELSE IF age <= 40 THEN 18
        ELSE 17

forecast_months(forecast_period) ==
    CASE forecast_period = "6m" -> 6
      [] forecast_period = "1y" -> 12
      [] forecast_period = "5y" -> 60
      [] OTHER                  -> 12

\* round(current_price, 2) of a price of n eightieths of a dollar, in cents
round_price(n) ==
    LET q == (5 * n) \div 4
        r == (5 * n) % 4
    IN  IF 2 * r > 4 \/ (2 * r = 4 /\ q % 2 = 1) THEN q + 1 ELSE q

\* random.choice and random.uniform of assess_market_value, the percentage
\* in tenths at the ends of its range
AssessmentDraws ==
    [assessment : {"undervalued", "overvalued"}, percentage : {50, 150}]
    \cup [assessment : {"fairly valued"}, percentage : {0, 30}]

prediction_error_result ==
    [error |-> "raised", current_price |-> None, confidence |-> 50]

\* predict_property_prices; location is the JSON value handed over, the
\* counts and the year are None or Some(integer), draw is the market
\* assessment; the forecast is given by its number of points
predict_property_prices(location, property_type, area_sqft, bedrooms, bathrooms, year_built, forecast_period, draw) ==
    IF location = json_number THEN prediction_error_result
    ELSE
    LET base_price_per_sqft == estimate_base_price(location.text, property_type)
        rooms == IF rooms_given(property_type, bedrooms, bathrooms)
                 THEN bedroom_factor(The(bedrooms)) * bathroom_factor(The(bathrooms))
                 ELSE 400
        aged == IF truthy(year_built) THEN age_factor(The(year_built)) ELSE 20
        current_price == base_price_per_sqft * area_sqft * rooms * aged
        confidence == IF truthy(bedrooms) /\ truthy(bathrooms) /\ truthy(year_built) THEN 85
                      ELSE IF truthy(bedrooms) /\ truthy(bathrooms) THEN 80
                      ELSE IF truthy(year_built) THEN 75
                      ELSE 70
    IN  [current_price |-> Some(round_price(current_price)),
         price_per_sqft |-> base_price_per_sqft,
         confidence |-> confidence,
         market_assessment |-> draw,
         forecast |-> forecast_months(forecast_period)]

\* POST /api/property-price/predict with the area, the counts and the year
\* as JSON integers, which float() and int() leave as they are
predict_prices(data, draw) ==
    IF data.location = None \/ data.property_type = None
       \/ data.area_sqft = None \/ data.area_sqft = Some(0)
    THEN error_response(400, "Missing required parameters")
    ELSE [status |-> "success",
          data |-> predict_property_prices(
                       The(data.location), The(data.property_type), The(data.area_sqft),
                       IF truthy(data.bedrooms) THEN data.bedrooms ELSE None,
                       IF truthy(data.bathrooms) THEN data.bathrooms ELSE None,
                       IF truthy(data.year_built) THEN data.year_built ELSE None,
                       data.forecast_period, draw)]

----------------------------------------------------------------------------
(* The price predictor applied once to a call or a request drawn by the    *)
(* initial state.                                                          *)

PriceLocations ==
    {"San Francisco, CA", "San Francisco", "New York, NY", " Chicago , IL",
     "Phoenix, AZ", "Austin, TX", "Unknown City, ZZ"}

PropertyTypes == {"residential", "commercial", "land", "industrial"}

BasePriceCalls ==
    [op : {"estimate_base_price"}, location : PriceLocations, property_type : PropertyTypes]

\* areas of 800 and 2000 square feet: the price is then a whole number of
\* cents
PriceAreas == {8, 20}

PredictRequests ==
    [op : {"predict"},
     location : {Some(json_string("Phoenix, AZ")), Some(json_string("San Francisco, CA"))},
     property_type : {Some("residential"), Some("commercial")},
     area_sqft : {Some(a) : a \in PriceAreas},
     bedrooms : {None} \cup {Some(n) : n \in 0..5},
     bathrooms : {None} \cup {Some(n) : n \in 0..3},
     year_built : {None, Some(0), Some(2025), Some(2006), Some(1980)},
     forecast_period : {"1y", "5y"}]
    \cup
    [op : {"predict"},
     location : {None, Some(json_number), Some(json_string("Unknown City, ZZ"))},
     property_type : {None, Some("residential"), Some("land")},
     area_sqft : {None, Some(0), Some(20)},
     bedrooms : {Some(6)}, bathrooms : {Some(4)},
     year_built : {Some(2024), Some(2016), Some(1986)},
     forecast_period : {"6m", "2y"}]

InitPrice ==
    /\ location_scores = <<>>
    /\ roi_calculations = <<>>
    /\ investment_recommendations = <<>>
    /\ request \in BasePriceCalls \cup PredictRequests
    /\ response = pending

BasePriceCall ==
    /\ request.op = "estimate_base_price" /\ response = pending
    /\ response' = value_response(estimate_base_price(request.location,
                                                      request.property_type))
    /\ UNCHANGED <<request, location_scores, roi_calculations, investment_recommendations>>

PredictPricesCall ==
    /\ request.op = "predict" /\ response = pending
    /\ \E draw \in AssessmentDraws : response' = predict_prices(request, draw)
    /\ UNCHANGED <<request, location_scores, roi_calculations, investment_recommendations>>

NextPrice == BasePriceCall \/ PredictPricesCall

SpecPrice == InitPrice /\ [][NextPrice]_vars

----------------------------------------------------------------------------
(* Properties of the price predictor.                                      *)

BasePriceReturned == request.op = "estimate_base_price" /\ response # pending

\* the default of a type, as documented
DocumentedDefault(property_type) ==
    CASE property_type = "residential" -> 300
      [] property_type = "commercial"  -> 400
      [] property_type = "land"        -> 150
      [] OTHER                         -> 300

CityNotInTable == request.location \in {"Unknown City, ZZ", "Austin, TX"}

PricePredicted ==
    /\ request.op = "predict" /\ response.status = "success"
    /\ response.data.current_price # None

\* the multiplier of the documented steps, in four-hundredths: a step for
\* each count that is given, a count of 0 included
DocumentedRoomMultiplier ==
    (IF request.bedrooms = None THEN 20
     ELSE CASE The(request.bedrooms) <= 1 -> 18
            [] The(request.bedrooms) = 2  -> 20
            [] The(request.bedrooms) = 3  -> 22
            [] The(request.bedrooms) = 4  -> 24
            [] OTHER                      -> 25)
    * (IF request.bathrooms = None THEN 20
       ELSE CASE The(request.bathrooms) <= 1 -> 19
              [] The(request.bathrooms) = 2  -> 21
              [] OTHER                       -> 22)

\* the price before the multiplier of the rooms, in eightieths of a dollar
BaseTimesAreaTimesAge ==
    estimate_base_price(The(request.location).text, The(request.property_type))
    * The(request.area_sqft)
    * (IF truthy(request.year_built) THEN age_factor(The(request.year_built)) ELSE 20)

\* C24 as stated: for a residential property the price is multiplied by
\* the documented step of every count that is given, a count of 0 and a
\* count given alone included; for another type no such multiplier is
\* applied.
C24_RoomMultipliers ==
    PricePredicted =>
        response.data.current_price =
            Some(round_price(BaseTimesAreaTimesAge
                             * (IF The(request.property_type) = "residential"
                                THEN DocumentedRoomMultiplier ELSE 400)))

----------------------------------------------------------------------------
(* The construction windows of a weather forecast:                         *)
(* identify_construction_windows of src/routes/construction_planning.py.   *)
(* A month of the forecast is [month, avg_temp, precipitation_days,        *)
(* favorable_days] with month = <<year, month of the year>> for the text   *)
(* '%Y-%m' and avg_temp in tenths of a degree.  Factors are in hundredths, *)
(* an unrounded score in 1/10000 of a day and a rounded score in tenths.   *)

temp_factor(avg_temp) ==
    IF avg_temp > 900 THEN 80
    ELSE IF avg_temp < 400 THEN 70
    ELSE 100

precip_factor(precipitation_days) ==
    IF precipitation_days > 15 THEN 70
    ELSE IF precipitation_days > 10 THEN 85
    ELSE 100

\* base_score * temp_factor * precip_factor
final_score(month) ==
    month.favorable_days * temp_factor(month.avg_temp)
    * precip_factor(month.precipitation_days)

\* the bands including their lower edges
window_rating_inclusive(score, unit) ==
    IF score >= 22 * unit THEN "Excellent"
    ELSE IF score >= 18 * unit THEN "Good"
    ELSE IF score >= 14 * unit THEN "Average"
    ELSE "Poor"

\* the rating of a score counted in 1/unit
window_rating(score, unit) ==
    IF score > 22 * unit THEN "Excellent"
    ELSE IF score > 18 * unit THEN "Good"
    ELSE IF score > 14 * unit THEN "Average"
    ELSE "Poor"

\* the products, as <<favorable_days, temp_factor, precip_factor>>, that
\* lie half-way between two tenths and whose double lies just below it
below_tie ==
    {<<3, 100, 85>>, <<11, 100, 85>>, <<15, 70, 70>>, <<19, 100, 85>>,
     <<27, 100, 85>>, <<31, 100, 85>>}

\* round(final_score, 1) of the double
round_score(month) ==
    IF <<month.favorable_days, temp_factor(month.avg_temp),
         precip_factor(month.precipitation_days)>> \in below_tie
    THEN (final_score(month) - 500) \div 1000
    ELSE round1(final_score(month), 10000)

\* the entry of scores for one month
month_score(month) ==
    [month |-> month.month,
     score |-> round_score(month),
     favorable_days |-> month.favorable_days,
     rating |-> window_rating(final_score(month), 10000)]

RECURSIVE sum_of_scores(_)
sum_of_scores(scores) ==
    IF scores = <<>> THEN 0 ELSE Head(scores).score + sum_of_scores(Tail(scores))

\* the window appended for a run of three or more months
window_of(current_window) ==
    [start |-> current_window[1].month,
     end |-> current_window[Len(current_window)].month,
     duration |-> Len(current_window),
     average_score |-> round1(sum_of_scores(current_window), 10 * Len(current_window)),
     rating |-> IF sum_of_scores(current_window) > 220 * Len(current_window)
                THEN "Excellent" ELSE "Good"]

\* low flexibility: runs of months scoring above 18, a window for every
\* month from the third of a run on
RECURSIVE consecutive_windows(_, _, _)
consecutive_windows(scores, current_window, windows) ==
    IF scores = <<>> THEN windows
    ELSE IF Head(scores).score > 180
    THEN LET extended == Append(current_window, Head(scores))
         IN  consecutive_windows(Tail(scores), extended,
                                 IF Len(extended) >= 3
                                 THEN Append(windows, window_of(extended))
                                 ELSE windows)
    ELSE consecutive_windows(Tail(scores), <<>>, windows)

season_of(month) ==
    IF 3 <= month[2] /\ month[2] <= 5 THEN "Spring"
    ELSE IF 6 <= month[2] /\ month[2] <= 8 THEN "Summer"
    ELSE IF 9 <= month[2] /\ month[2] <= 11 THEN "Fall"
    ELSE "Winter"

\* medium and high flexibility: the months grouped by runs of one season;
\* a group of one month has no end
RECURSIVE group_by_season(_, _)
group_by_season(scores, season_months) ==
    IF scores = <<>> THEN season_months
    ELSE LET score == Head(scores)
             season == season_of(score.month)
             n == Len(season_months)
         IN  IF n = 0 \/ season_months[n].season # season
             THEN group_by_season(Tail(scores),
                      Append(season_months,
                             [season |-> season, months |-> <<score>>,
                              start |-> score.month, end |-> None]))
             ELSE group_by_season(Tail(scores),
                      [season_months EXCEPT ![n].months = Append(@, score),
                                            ![n].end = Some(score.month)])

\* a group with the average of its months and the rating of the average
rated_season(season) ==
    [season |-> season.season, months |-> season.months,
     start |-> season.start, end |-> season.end,
     average_score |-> round1(sum_of_scores(season.months), 10 * Len(season.months)),
     rating |-> window_rating(sum_of_scores(season.months), 10 * Len(season.months))]

identify_construction_windows(weather_forecast, flexibility) ==
    LET scores == [i \in 1..Len(weather_forecast) |-> month_score(weather_forecast[i])]
    IN  IF flexibility = "low"
        THEN consecutive_windows(scores, <<>>, <<>>)
        ELSE LET season_months == group_by_season(scores, <<>>)
             IN  [k \in 1..Len(season_months) |-> rated_season(season_months[k])]

----------------------------------------------------------------------------
(* identify_construction_windows applied once to a forecast and a          *)
(* flexibility drawn by the initial state.                                 *)

\* the month of the forecast i months after the first, which is month
\* first of the current year
month_after(first, i) ==
    <<current_year + (first + i - 1) \div 12, ((first + i - 1) % 12) + 1>>

\* average temperatures, in tenths: mild, hot, cold, and the edges 90.0
\* and 40.0
Temperatures == {750, 950, 350, 900, 400}

\* precipitation days: few, the edges 10 and 15, and above each edge
Precipitations == {8, 10, 11, 15, 16}

\* twelve-month forecasts: the favorable days of Forecasts, one
\* temperature and one precipitation for all the months or for every other
\* month, the rest being mild and dry
WindowForecasts ==
    {[i \in 1..12 |->
        [month |-> month_after(first, i - 1),
         avg_temp |-> IF every_other /\ i % 2 = 0 THEN 750 ELSE temp,
         precipitation_days |-> IF every_other /\ i % 2 = 0 THEN 8 ELSE precipitation,
         favorable_days |-> days[i]]] :
        first \in {1, 11}, every_other \in BOOLEAN, temp \in Temperatures,
        precipitation \in Precipitations, days \in Forecasts}

\* the average of the scores lies half-way between two tenths
tied_average(scores) ==
    LET total == sum_of_scores(scores)
        n == Len(scores)
    IN  (2 * total) % n = 0 /\ ((2 * total) \div n) % 2 = 1

\* some average that identify_construction_windows rounds, of a season or
\* of a run of months scoring above 18 taken from its first month, lies
\* half-way between two tenths
averages_tied(weather_forecast) ==
    LET scores == [i \in 1..Len(weather_forecast) |-> month_score(weather_forecast[i])]
        seasons == group_by_season(scores, <<>>)
    IN  \/ \E k \in 1..Len(seasons) : tied_average(seasons[k].months)
        \/ \E i \in 1..Len(scores), j \in 1..Len(scores) :
               /\ j >= i + 2
               /\ \A k \in i..j : scores[k].score > 180
               /\ (i = 1 \/ scores[i - 1].score <= 180)
               /\ tied_average(SubSeq(scores, i, j))

\* the calls whose averages are clear of such ties, where round(x, 1)
\* follows the rounding errors of the sum of the doubles
WindowCalls ==
    [op : {"identify_construction_windows"},
     weather_forecast : {f \in WindowForecasts : ~averages_tied(f)},
     flexibility : {"low", "medium", "high"}]

InitWindows ==
    /\ location_scores = <<>>
    /\ roi_calculations = <<>>
    /\ investment_recommendations = <<>>
    /\ request \in WindowCalls
    /\ response = pending

WindowsCall ==
    /\ request.op = "identify_construction_windows" /\ response = pending
    /\ response' = value_response(
           identify_construction_windows(request.weather_forecast, request.flexibility))
    /\ UNCHANGED <<request, location_scores, roi_calculations, investment_recommendations>>

NextWindows == WindowsCall

SpecWindows == InitWindows /\ [][NextWindows]_vars

----------------------------------------------------------------------------
(* Properties of the monthly scores of the construction windows.           *)

\* the month records handed back with the seasons
ReturnedMonths ==
    {<<k, i>> \in (1..Len(response.data)) \X (1..12) :
        i <= Len(response.data[k].months)}

\* the month of the forecast a returned record is about
ForecastMonth(record) ==
    CHOOSE month \in {request.weather_forecast[i] : i \in 1..12} :
        month.month = record.month

\* favorableDays * tempFactor * precipFactor as documented, in 1/10000
DocumentedWindowScore(month) ==
    month.favorable_days
    * (IF month.avg_temp > 900 THEN 80 ELSE IF month.avg_temp < 400 THEN 70 ELSE 100)
    * (IF month.precipitation_days > 15 THEN 70
       ELSE IF month.precipitation_days > 10 THEN 85 ELSE 100)

DocumentedRating(score) ==
    IF score > 220000 THEN "Excellent"
    ELSE IF score > 180000 THEN "Good"
    ELSE IF score > 140000 THEN "Average"
    ELSE "Poor"

SeasonsReturned ==
    /\ request.op = "identify_construction_windows" /\ response # pending
    /\ request.flexibility # "low"

\* C25: every monthly record carries the rating of the documented bands
\* for favorableDays * tempFactor * precipFactor, and as its score that
\* product to one decimal.
C25_MonthScoreAndRating ==
    SeasonsReturned =>
        \A at \in ReturnedMonths :
            LET record == response.data[at[1]].months[at[2]]
                score == DocumentedWindowScore(ForecastMonth(record))
            IN  /\ record.rating = DocumentedRating(score)
                /\ Abs(record.score * 1000 - score) <= 500

\* the documented example: 25 favorable days at 75 degrees with 8 days of
\* precipitation score 25.0 and are rated Excellent
C25_Witness ==
    /\ SeasonsReturned
    /\ \E at \in ReturnedMonths :
        LET record == response.data[at[1]].months[at[2]]
        IN  /\ ForecastMonth(record).favorable_days = 25
            /\ ForecastMonth(record).avg_temp = 750
            /\ ForecastMonth(record).precipitation_days = 8
            /\ record.score = 250 /\ record.rating = "Excellent"

----------------------------------------------------------------------------
(* Properties of the candidate windows of the optimizer.                   *)

\* the runs of three consecutive months within the twelve of the forecast,
\* one for each start month index 0 through 9, with the sum of their
\* favorable days (three times their mean)
RunsOfThree ==
    {[start_date |-> 30 * i,
      score |-> request.forecast[i + 1] + request.forecast[i + 2] + request.forecast[i + 3]] :
        i \in 0..(Len(request.forecast) - 3)}

\* C26 as stated: the candidate windows are all the runs of three
\* consecutive months of the twelve-month forecast, start month indices 0
\* through 9, ranked by descending mean of their favorable days; so with
\* low flexibility and no timeline the start returned is that of a run
\* that no run outscores.
C26_CandidatesAreAllRuns ==
    (PlanReturned /\ ~timeline_constrains(request.timeline)
     /\ request.flexibility = Some("low"))
    => \E w \in RunsOfThree :
           /\ w.start_date = response.data.optimal_timing.start_date
           /\ \A v \in RunsOfThree : v.score <= w.score

----------------------------------------------------------------------------
(* The location service against a table that already holds rows, written   *)
(* to the database by other means than these endpoints.                    *)

stored_score(location, n) ==
    LocationScore(location, 500 + n, 510 + n, 520 + n, 530 + n, 540 + n, 550 + n, 560 + n)

\* no row, a row for one location, two rows for it, and rows for two
StoredTables ==
    {<<>>,
     <<stored_score("Phoenix", 1)>>,
     <<stored_score("Phoenix", 1), stored_score("Phoenix", 2)>>,
     <<stored_score("Austin", 3), stored_score("Phoenix", 1)>>}

InitCached ==
    /\ location_scores \in StoredTables
    /\ roi_calculations = <<>>
    /\ investment_recommendations = <<>>
    /\ request = [op |-> "none"]
    /\ response = [status |-> "none"]

SpecCached == InitCached /\ [][Next]_vars

\* the records a lookup of a location can yield: its latest stored row or
\* a synthetic record
LookupYields(location) ==
    (IF latest_row(location_scores, location) # None
     THEN {The(latest_row(location_scores, location))} ELSE {})
    \cup {generate_sample_location_score(location, d) : d \in RequestDraws}

----------------------------------------------------------------------------
(* Properties of the contributions of stable and neutral trends to the     *)
(* market score.                                                           *)

ThreeEmptySeries ==
    /\ request.interest_rates = <<>>
    /\ request.inflation_data = <<>>
    /\ request.gdp_data = <<>>

C28_EmptySeriesScoredOne ==
    /\ ForecastScored /\ ThreeEmptySeries
    /\ response.data.factors.interest_rates.trend = "neutral"
    /\ response.data.factors.inflation.trend = "neutral"
    /\ response.data.factors.gdp.trend = "neutral"
    /\ response.locals.market_score = 1

----------------------------------------------------------------------------
(* Properties of the order of the material purchase and the start.         *)

\* C29 as stated: the material purchase date returned is never later than
\* the construction start date returned with it, whichever window was
\* selected, the one starting at month index 0 included.
C29_PurchaseNotAfterStart ==
    PlanReturned =>
        response.data.material_recommendations.best_purchase_time
            <= response.data.optimal_timing.start_date

----------------------------------------------------------------------------
(* The recommendations table: the recommend endpoint saves, the history    *)
(* endpoint reads.                                                         *)

\* one synthetic recommendation: 'buy', 'hold' or 'sell'; the confidence in
\* hundredths; "k months" (carried as <<k>>) for a buy only; an ROI
\* estimate unless it is a sell; twelve monthly prices
sample_recommendation(location, draw) ==
    [location |-> location,
     recommendation |-> draw.recommendation,
     confidence |-> draw.confidence,
     price_forecast |-> 12,
     optimal_time |-> IF draw.recommendation = "buy" THEN <<draw.months>> ELSE None,
     roi_estimate |-> IF draw.recommendation # "sell" THEN Some(draw.roi) ELSE None]

\* generate_sample_investment_history: min(limit, 5) synthetic
\* recommendations, none for a limit below 1
generate_sample_investment_history(location, property_type, limit, draws) ==
    [i \in 1..Max2(0, Min2(limit, 5)) |-> sample_recommendation(location, draws[i])]

\* the first n elements of a list
first_rows(rows, n) == SubSeq(rows, 1, Min2(n, Len(rows)))

\* rows in the order of ORDER BY created_at DESC: the table is kept in
\* insertion order
newest_first(rows) == [i \in 1..Len(rows) |-> rows[Len(rows) + 1 - i]]

\* get_investment_history: the rows of the location (and of the property
\* type, where one is given), newest first, at most limit of them, as
\* InvestmentRecommendation objects; synthetic ones where there is no
\* connection, where the query raises (a negative LIMIT) and where no row
\* was found
get_investment_history(rows, location, property_type, limit, db_up, draws) ==
    LET sample == generate_sample_investment_history(location, property_type, limit, draws)
        wanted(row) == /\ row.location = json_string(location)
                       /\ (property_type \in {None, Some("")}
                           \/ row.property_type = The(property_type))
        results == first_rows(newest_first(SelectSeq(rows, wanted)), limit)
        recommendations ==
            [i \in 1..Len(results) |->
                [location |-> location,
                 recommendation |-> results[i].recommendation,
                 confidence |-> results[i].confidence,
                 price_forecast |-> results[i].price_forecast,
                 optimal_time |-> results[i].optimal_time,
                 roi_estimate |-> results[i].roi_estimate]]
    IN  IF ~db_up \/ limit < 0 THEN sample
        ELSE IF recommendations # <<>> THEN recommendations
        ELSE sample

\* a query string that int() rejects, such as 'abc'
not_an_int == <<0, 0>>

\* GET /api/investment-timing/history.  The limit is read with int() ahead
\* of the check of the location: one that is no number is answered 500; a
\* missing one is 10.  A missing or empty location is answered 400.
get_recommendation_history(rows, args, db_up, draws) ==
    IF args.limit = not_an_int
    THEN error_response(500, "Failed to fetch investment history")
    ELSE IF args.location \in {None, Some("")}
    THEN error_response(400, "Missing required parameter: location")
    ELSE [status |-> "success",
          data |-> get_investment_history(rows, The(args.location), args.property_type,
                                          IF args.limit = None THEN 10 ELSE The(args.limit),
                                          db_up, draws)]

\* the ends of random.uniform(0.6, 0.95), random.randint(1, 12) and
\* random.uniform(5, 15), for each of the three kinds
HistoryDraws ==
    {[recommendation |-> r, confidence |-> c[1], months |-> c[2], roi |-> c[3]] :
        r \in {"buy", "hold", "sell"}, c \in {<<60, 1, 5>>, <<95, 12, 15>>}}

\* the draws of the five synthetic recommendations: one draw repeated, or
\* one taking turns with a buy of confidence 0.85 in 3 months
HistoryDrawLists ==
    {[i \in 1..5 |-> a] : a \in HistoryDraws}
    \cup {[i \in 1..5 |-> IF i % 2 = 1 THEN a
                          ELSE [recommendation |-> "buy", confidence |-> 85,
                                months |-> 3, roi |-> 10]] : a \in HistoryDraws}

history_request(location, property_type, limit) ==
    [op |-> "history", location |-> location, property_type |-> property_type,
     limit |-> limit]

HistoryRequests ==
    {history_request(l, p, n) :
        l \in {None, Some(""), Some("Phoenix, AZ"), Some("Dallas, TX")},
        p \in {None, Some("residential")},
        n \in {None, Some(-1), Some(0), Some(1), Some(3), not_an_int}}

\* complete recommend requests of two cities, and ones answered 400
TableRecommendRequests ==
    {recommend_request("string", c, Some(g), Some(t), b, None, i, i) :
        c \in {<<"Phoenix, AZ", "residential">>, <<"Dallas, TX", "residential">>},
        g \in {"flip", "hold"}, t \in {1}, b \in {None, Some(250000)},
        i \in TimingIndicatorLists}
    \cup {recommend_request(l, <<"Phoenix, AZ", "residential">>, Some("flip"), t, None, None,
                            <<>>, <<>>) :
            l \in {"missing", "number"}, t \in {Some(0), Some(1)}}

\* one server, serving one request after the other; the environment of a
\* request (whether the database could be reached) is kept with it
served(r, db_up) == [call |-> r, db_up |-> db_up]

InitTable ==
    /\ location_scores = <<>>
    /\ roi_calculations = <<>>
    /\ investment_recommendations = <<>>
    /\ request = served([op |-> "none"], TRUE)
    /\ response = pending

RecommendServed ==
    \E r \in TableRecommendRequests, db_up \in BOOLEAN, jitter \in RoiJitters :
        LET answer == get_investment_recommendation(r, r.interest_rates,
                                                    r.inflation_data, jitter)
        IN  /\ request' = served(r, db_up)
            /\ response' = answer
            /\ investment_recommendations' =
                   recommendation_saved(investment_recommendations, r, answer, db_up)
            /\ UNCHANGED <<location_scores, roi_calculations>>

HistoryServed ==
    \E q \in HistoryRequests, db_up \in BOOLEAN, draws \in HistoryDrawLists :
        /\ request' = served(q, db_up)
        /\ response' = get_recommendation_history(investment_recommendations, q,
                                                  db_up, draws)
        /\ UNCHANGED <<location_scores, roi_calculations, investment_recommendations>>

NextTable == RecommendServed \/ HistoryServed

SpecTable == InitTable /\ [][NextTable]_vars

----------------------------------------------------------------------------
(* Properties of the recommendations table.                                *)

\* the list holds a recommendation with the kind, the confidence and the
\* optimal time of the one produced
HistoryContains(history, produced) ==
    \E i \in 1..Len(history) :
        /\ history[i].recommendation = produced.recommendation
        /\ history[i].confidence = produced.confidence
        /\ "optimal_time" \in DOMAIN produced
        /\ history[i].optimal_time = produced.optimal_time

\* C30 as stated: after a recommend request for a location has returned
\* success while the store was reachable, the history request for that
\* location that is served next (the store reachable, a limit of 1 or more)
\* returns a list that contains the recommendation just produced.
C30_HistoryContainsRecommendation ==
    [][(/\ request.call.op = "recommend" /\ request.db_up
        /\ response.status = "success"
        /\ request'.call.op = "history" /\ request'.db_up
        /\ response'.status = "success"
        /\ request.call.location = Some(json_string(The(request'.call.location)))
        /\ request'.call.limit \in {None, Some(1), Some(3)})
       => HistoryContains(response'.data, response.data)]_vars

\* a recommendation was produced with the store reachable and the table
\* holds no row
C30_NothingSaved ==
    /\ request.call.op = "recommend" /\ request.db_up
    /\ response.status = "success"
    /\ "optimal_time" \in DOMAIN response.data
    /\ investment_recommendations = <<>>

============================================================================
